---- MODULE Spec2Model ----
(***************************************************************************)
(* Model of rauk's trace builder (wcet_analysis / wcet_rec), the           *)
(* breakpoint decoding (Breakpoint::from), the response-time analyzer      *)
(* (pre_analysis, run_analysis), the measurement loop on hardware         *)
(* (measure_replay_harness / read_breakpoints), the probe helpers, the     *)
(* name resolution and variable locations read from the DWARF, and the     *)
(* recurrence of preemption_rec on u32 values.                             *)
(***************************************************************************)
EXTENDS Integers, Sequences, FiniteSets, TLC

VARIABLES
    measurement,    \* Vec<(Breakpoint, String, u32)>: the sample list of one vector
    analysis,       \* outcome of wcet_analysis(measurement), NoAnalysis before the call
    pc,             \* position of the driver: "collect", "done", ...
    imm,            \* a raw 8-bit breakpoint immediate
    decoded,        \* Breakpoint::from(imm), NoBreakpoint before the conversion
    tasks,          \* Vec<Task>: the task declarations read by the analyzer
    traces,         \* Vec<Trace>: the measured traces read by the analyzer
    pre,            \* what pre_analysis returned, NoPreAnalysis before the call
    results,        \* what run_analysis returned, NoRun before the call
    ktests,         \* number of test vectors handed to measure_replay_harness
    measurements,   \* Vec<Vec<MeasurementResult>>: the lists of the measured vectors
    current_hw_bkpt, \* address of the programmed hardware breakpoint, 0 if none
    halts,          \* history: the halts of the core since the start of the measurement
    failure,        \* the error or panic that ended the measurement, "" if none
    core_halted,    \* core.core_halted(): the core of the target is halted
    target,         \* where the core is halted: PC, instruction at the PC, link register
    hw_breakpoints, \* the addresses at which a hardware breakpoint is programmed
    vcell_test_vectors, \* the hardware-read values of the vector not yet popped
    written,        \* history: the writes to memory and core registers of the vector
    app,            \* AppInfo: the release flag and the disassembly of the binary
    ktest,          \* the test vector being replayed
    running_access, \* history: the target was read or written while the core ran
    core,           \* probe-rs Core: the PC register, the memory, the commands it was sent
    dwarf,          \* the debugging information entry being parsed
    recurrence      \* the running call of preemption: its task and the argument prev_rt

vars == <<measurement, analysis, pc, imm, decoded, tasks, traces, pre, results,
          ktests, measurements, current_hw_bkpt, halts, failure,
          core_halted, target, hw_breakpoints, vcell_test_vectors, written,
          app, ktest, running_access, core, dwarf, recurrence>>

builderVars == <<measurement, analysis>>
fromVars == <<imm, decoded>>
analyzeVars == <<tasks, traces, pre, results, recurrence>>
engineVars == <<ktests, measurements, current_hw_bkpt, halts, failure>>
probeVars == <<core_halted, target, hw_breakpoints, vcell_test_vectors, written,
               app, ktest, running_access, core, dwarf>>

(***************************************************************************)
(* Bounds of the model                                                     *)
(***************************************************************************)
MaxLen == 3         \* longest sample list of the unrestricted specification
MaxDelta == 1       \* largest cycle-count increment between two samples

Names == {"t1", "r1"}

(***************************************************************************)
(* Breakpoints: src/src/analysis/breakpoints.rs, src/src/analysis/analysis.rs *)
(***************************************************************************)
EntryVariants == {"HardwareTaskStart", "ResourceLockStart", "SoftwareTaskStart"}
ExitVariants == {"SoftwareTaskEnd", "ResourceLockEnd", "HardwareTaskEnd"}
OtherVariants == {"Default", "InsideTask", "InsideLockClosure", "Invalid",
                  "InsideLock", "ReplayStart"}

\* The discriminant of a variant (`as u8` / `as u32`)
Discriminant(v) ==
    CASE v = "Default" -> 0
      [] v = "InsideTask" -> 1
      [] v = "HardwareTaskStart" -> 2
      [] v = "ResourceLockStart" -> 3
      [] v = "SoftwareTaskStart" -> 4
      [] v = "InsideLockClosure" -> 5
      [] v = "Invalid" -> 100
      [] v = "SoftwareTaskEnd" -> 251
      [] v = "ResourceLockEnd" -> 252
      [] v = "HardwareTaskEnd" -> 253
      [] v = "InsideLock" -> 254
      [] v = "ReplayStart" -> 255

Other(v) == [cat |-> "Other", v |-> v]
Entry(v) == [cat |-> "Entry", v |-> v]
Exit(v) == [cat |-> "Exit", v |-> v]

NoBreakpoint == [cat |-> "None", v |-> "None"]

\* Mutant of BreakpointFrom: the arm of code 5 is missing.
BreakpointFrom_No5(u) ==
    CASE u = 0 -> Other("Default")
      [] u = 1 -> Other("InsideTask")
      [] u = 2 -> Entry("HardwareTaskStart")
      [] u = 3 -> Entry("ResourceLockStart")
      [] u = 4 -> Entry("SoftwareTaskStart")
      [] u = 251 -> Exit("SoftwareTaskEnd")
      [] u = 252 -> Exit("ResourceLockEnd")
      [] u = 253 -> Exit("HardwareTaskEnd")
      [] u = 254 -> Other("InsideLock")
      [] u = 255 -> Other("ReplayStart")
      [] OTHER -> Other("Invalid")

\* impl From<u8> for Breakpoint
BreakpointFrom(u) ==
    CASE u = 0 -> Other("Default")
      [] u = 1 -> Other("InsideTask")
      [] u = 2 -> Entry("HardwareTaskStart")
      [] u = 3 -> Entry("ResourceLockStart")
      [] u = 4 -> Entry("SoftwareTaskStart")
      [] u = 5 -> Other("InsideLockClosure")
      [] u = 251 -> Exit("SoftwareTaskEnd")
      [] u = 252 -> Exit("ResourceLockEnd")
      [] u = 253 -> Exit("HardwareTaskEnd")
      [] u = 254 -> Other("InsideLock")
      [] u = 255 -> Other("ReplayStart")
      [] OTHER -> Other("Invalid")

is_exit(b) == b.cat = "Exit"

\* Mutant of TraceTypeFrom: the two task kinds are swapped.
TraceTypeFrom_Swapped(e) ==
    CASE e = "SoftwareTaskStart" -> "HardwareTask"
      [] e = "HardwareTaskStart" -> "SoftwareTask"
      [] e = "ResourceLockStart" -> "ResourceLock"

\* impl From<Entry> for TraceType
TraceTypeFrom(e) ==
    CASE e = "SoftwareTaskStart" -> "SoftwareTask"
      [] e = "HardwareTaskStart" -> "HardwareTask"
      [] e = "ResourceLockStart" -> "ResourceLock"

\* Trace::new
Trace(name, ttype, start, inner, end) ==
    [name |-> name, ttype |-> ttype, start |-> start, inner |-> inner, end |-> end]

(***************************************************************************)
(* The trace builder: src/src/analysis/analysis.rs                         *)
(***************************************************************************)
Sample(b, n, c) == [bkpt |-> b, name |-> n, cyccnt |-> c]

NoSample == Sample(NoBreakpoint, "", 0)

\* Vec::reverse
RECURSIVE Reverse(_)
Reverse(s) == IF s = <<>> THEN <<>> ELSE Append(Reverse(Tail(s)), Head(s))

\* Vec::pop: the last element, and the vector without it
Last(s) == s[Len(s)]
Front(s) == SubSeq(s, 1, Len(s) - 1)

\* What a call of wcet_rec leaves behind: its Result, and bkpts and stack,
\* which it mutates through &mut.
\*   status "Ok":    traces and last are the returned pair
\*   status "Err":   err names the anyhow error
\*   status "Panic": stack.pop().unwrap() on an empty stack
RecOk(trs, last, bkpts, stack) ==
    [status |-> "Ok", err |-> "", traces |-> trs, last |-> last,
     bkpts |-> bkpts, stack |-> stack]

RecFail(status, err, bkpts, stack) ==
    [status |-> status, err |-> err, traces |-> <<>>, last |-> NoSample,
     bkpts |-> bkpts, stack |-> stack]

\* Mutant of InnerLoopDone: the loop ends only when the vector is empty.
InnerLoopDone_OnlyEmpty(last, prev, bkpts) == bkpts = <<>>

\* The test that ends the inner loop of an Entry (analysis.rs:173)
InnerLoopDone(last, prev, bkpts) ==
    (is_exit(last) /\ is_exit(prev)) \/ bkpts = <<>>

RECURSIVE wcet_rec(_, _)
RECURSIVE inner_loop(_, _, _)

\* The `loop` of the Entry arm (analysis.rs:162-176); `inner` is the list
\* gathered so far.  Returns the inner list as traces and, as last, the
\* sample returned by the last recursive call (its cyccnt is `end`).
inner_loop(bkpts, stack, inner) ==
    LET r == wcet_rec(bkpts, stack)
    IN  IF r.status # "Ok" THEN r
        ELSE LET inner2 == inner \o r.traces
                 last == r.last.bkpt
                 prev == last
             IN  IF InnerLoopDone(last, prev, r.bkpts)
                 THEN RecOk(inner2, r.last, r.bkpts, r.stack)
                 ELSE inner_loop(r.bkpts, r.stack, inner2)

\* Mutant of ExitArm: the Exit is checked against the first opened Entry
\* instead of the most recently opened one.
ExitArm_Fifo(cur, bkpts, stack) ==
    IF stack = <<>>
    THEN RecFail("Panic", "unwrap on None", bkpts, stack)
    ELSE LET entry == Discriminant(Head(stack))
             exit == Discriminant(cur.bkpt.v)
         IN  IF entry + exit # 255
             THEN RecFail("Err", "ScopeMismatch", bkpts, Tail(stack))
             ELSE RecOk(<<>>, cur, bkpts, Tail(stack))

\* The Exit arm (analysis.rs:180-192)
ExitArm(cur, bkpts, stack) ==
    IF stack = <<>>
    THEN RecFail("Panic", "unwrap on None", bkpts, stack)
    ELSE LET entry == Discriminant(Last(stack))
             exit == Discriminant(cur.bkpt.v)
         IN  IF entry + exit # 255
             THEN RecFail("Err", "ScopeMismatch", bkpts, Front(stack))
             ELSE RecOk(<<>>, cur, bkpts, Front(stack))

\* Mutant of EntryArm: the end of the trace is the cycle count of its own Entry.
EntryArm_EndIsStart(cur, bkpts, stack) ==
    LET l == inner_loop(bkpts, Append(stack, cur.bkpt.v), <<>>)
    IN  IF l.status # "Ok" THEN l
        ELSE RecOk(<<Trace(cur.name, TraceTypeFrom(cur.bkpt.v), cur.cyccnt,
                           l.traces, cur.cyccnt)>>,
                   cur, l.bkpts, l.stack)

\* Mutant of EntryArm: the trace is named after the sample that closes it.
EntryArm_NameOfLast(cur, bkpts, stack) ==
    LET l == inner_loop(bkpts, Append(stack, cur.bkpt.v), <<>>)
    IN  IF l.status # "Ok" THEN l
        ELSE RecOk(<<Trace(l.last.name, TraceTypeFrom(cur.bkpt.v), cur.cyccnt,
                           l.traces, l.last.cyccnt)>>,
                   cur, l.bkpts, l.stack)

\* The Entry arm (analysis.rs:148-179)
EntryArm(cur, bkpts, stack) ==
    LET l == inner_loop(bkpts, Append(stack, cur.bkpt.v), <<>>)
    IN  IF l.status # "Ok" THEN l
        ELSE RecOk(<<Trace(cur.name, TraceTypeFrom(cur.bkpt.v), cur.cyccnt,
                           l.traces, l.last.cyccnt)>>,
                   cur, l.bkpts, l.stack)

\* Mutant of wcet_rec: an empty vector is not an error.
wcet_rec_EmptyIsOk(bkpts, stack) ==
    IF bkpts = <<>>
    THEN RecOk(<<>>, NoSample, bkpts, stack)
    ELSE LET cur == Last(bkpts)
             rest == Front(bkpts)
         IN  CASE cur.bkpt.cat = "Entry" -> EntryArm(cur, rest, stack)
               [] cur.bkpt.cat = "Exit" -> ExitArm(cur, rest, stack)
               [] OTHER -> RecFail("Err", "UnsupportedBreakpoint", rest, stack)

\* wcet_rec (analysis.rs:130-200)
wcet_rec(bkpts, stack) ==
    IF bkpts = <<>>
    THEN RecFail("Err", "EmptyInput", bkpts, stack)
    ELSE LET cur == Last(bkpts)
             rest == Front(bkpts)
         IN  CASE cur.bkpt.cat = "Entry" -> EntryArm(cur, rest, stack)
               [] cur.bkpt.cat = "Exit" -> ExitArm(cur, rest, stack)
               [] OTHER -> RecFail("Err", "UnsupportedBreakpoint", rest, stack)

\* wcet_analysis: the Result it returns, with what wcet_rec left of bkpts
wcet_analysis(bkpts) == wcet_rec(Reverse(bkpts), <<>>)

NoAnalysis == RecFail("None", "", <<>>, <<>>)

(***************************************************************************)
(* The pre-analysis of the analyzer: src/src/analyze/data.rs               *)
(***************************************************************************)
\* struct Task; trace is an Option: <<>> is None, <<t>> is Some(t)
Task(name, priority, deadline, inter_arrival) ==
    [name |-> name, priority |-> priority, deadline |-> deadline,
     inter_arrival |-> inter_arrival, trace |-> <<>>]

\* HashMap: a function on the set of its keys
EmptyMap == <<>>
HasKey(m, k) == k \in DOMAIN m
Insert(m, k, v) == (k :> v) @@ m

\* get_longest_wcet_trace: the loop from the i-th trace on, current_wcet being
\* an Option
RECURSIVE LongestFrom(_, _, _, _)
LongestFrom(task, trs, i, current_wcet) ==
    IF i > Len(trs) THEN current_wcet
    ELSE LET trace == trs[i]
         IN  IF trace.name = task.name
             THEN IF current_wcet # <<>>
                  THEN IF (trace.end - trace.start)
                              > (current_wcet[1].end - current_wcet[1].start)
                       THEN LongestFrom(task, trs, i + 1, <<trace>>)
                       ELSE LongestFrom(task, trs, i + 1, current_wcet)
                  ELSE LongestFrom(task, trs, i + 1, <<trace>>)
             ELSE LongestFrom(task, trs, i + 1, current_wcet)

\* Mutant of get_longest_wcet_trace: the first trace of the task, whatever
\* its duration
get_longest_wcet_trace_First(task, trs) ==
    LET own == SelectSeq(trs, LAMBDA t : t.name = task.name)
    IN  IF own = <<>> THEN <<>> ELSE <<own[1]>>

get_longest_wcet_trace(task, trs) == LongestFrom(task, trs, 1, <<>>)

\* update_task_resources: the loop from the i-th trace of the list on
RECURSIVE UpdateFrom(_, _, _, _)
UpdateFrom(task, trs, i, task_resources) ==
    IF i > Len(trs) THEN task_resources
    ELSE LET trace == trs[i]
             inserted ==
                 IF HasKey(task_resources, task.name)
                 THEN Insert(task_resources, task.name,
                             task_resources[task.name] \cup {trace.name})
                 ELSE Insert(task_resources, task.name, {trace.name})
         IN  UpdateFrom(task, trs, i + 1, UpdateFrom(task, trace.inner, 1, inserted))

\* Mutant of update_task_resources: only the traces of the list, not the
\* traces inside them
update_task_resources_Direct(task, trs, task_resources) ==
    IF trs = <<>> THEN task_resources
    ELSE Insert(task_resources, task.name,
                (IF HasKey(task_resources, task.name) THEN task_resources[task.name]
                 ELSE {}) \cup {trs[k].name : k \in 1..Len(trs)})

update_task_resources(task, trs, task_resources) ==
    UpdateFrom(task, trs, 1, task_resources)

\* get_task_resources: the loop from the i-th trace on
RECURSIVE TaskResourcesFrom(_, _, _, _)
TaskResourcesFrom(trs, task_map, i, task_resources) ==
    IF i > Len(trs) THEN task_resources
    ELSE LET trace == trs[i]
         IN  IF HasKey(task_map, trace.name)
             THEN TaskResourcesFrom(trs, task_map, i + 1,
                      update_task_resources(task_map[trace.name], trace.inner,
                                            task_resources))
             ELSE TaskResourcesFrom(trs, task_map, i + 1, task_resources)

get_task_resources(trs, task_map) == TaskResourcesFrom(trs, task_map, 1, EmptyMap)

\* Mutant of ResourceCeilings: the priority of the task is stored without the
\* comparison with the ceiling found so far.
ResourceCeilings_Overwrite(priorities, task, set) ==
    [k \in (DOMAIN priorities) \cup set |->
        IF k \in set THEN task.priority ELSE priorities[k]]

\* The loop over the resources of one task in get_priorites (data.rs:110-118).
\* The resources of a set are distinct keys, so the order of set.iter() does
\* not change the map the loop leaves.
ResourceCeilings(priorities, task, set) ==
    [k \in (DOMAIN priorities) \cup set |->
        IF k \in set
        THEN IF HasKey(priorities, k)
             THEN IF task.priority > priorities[k] THEN task.priority
                  ELSE priorities[k]
             ELSE task.priority
        ELSE priorities[k]]

\* get_priorites: the loop from the i-th task on
RECURSIVE PrioritiesFrom(_, _, _, _)
PrioritiesFrom(tsks, task_resources, i, priorities) ==
    IF i > Len(tsks) THEN priorities
    ELSE LET task == tsks[i]
             own == Insert(priorities, task.name, task.priority)
         IN  IF HasKey(task_resources, task.name)
             THEN PrioritiesFrom(tsks, task_resources, i + 1,
                      ResourceCeilings(own, task, task_resources[task.name]))
             ELSE PrioritiesFrom(tsks, task_resources, i + 1, own)

get_priorites(tsks, task_resources) == PrioritiesFrom(tsks, task_resources, 1, EmptyMap)

\* The first loop of pre_analysis (data.rs:45-50), from the i-th task on
RECURSIVE PreLoop(_, _, _, _, _)
PreLoop(tsks, trs, i, task_map, wcet_traces) ==
    IF i > Len(tsks) THEN [task_map |-> task_map, wcet_traces |-> wcet_traces]
    ELSE LET task == tsks[i]
             longest == get_longest_wcet_trace(task, trs)
         IN  PreLoop(tsks, trs, i + 1, Insert(task_map, task.name, task),
                     IF longest # <<>> THEN Append(wcet_traces, longest[1])
                     ELSE wcet_traces)

pre_analysis(tsks, trs) ==
    LET l == PreLoop(tsks, trs, 1, EmptyMap, <<>>)
        task_resources == get_task_resources(l.wcet_traces, l.task_map)
        priorities == get_priorites(tsks, task_resources)
    IN  [task_resources |-> task_resources, priorities |-> priorities,
         wcet_traces |-> l.wcet_traces]

NoPreAnalysis == [task_resources |-> EmptyMap, priorities |-> EmptyMap, wcet_traces |-> <<>>]

(***************************************************************************)
(* Response-time analysis: src/src/analyze/mod.rs, src/src/analyze/analysis.rs *)
(***************************************************************************)
\* response_time_analysis, the loop body of mod.rs:42-49: the task gets the
\* first WCET trace whose name is the task's, from the i-th trace on
RECURSIVE AssignFrom(_, _, _)
AssignFrom(task, wcet_traces, i) ==
    IF i > Len(wcet_traces) THEN task
    ELSE IF wcet_traces[i].name = task.name
         THEN [task EXCEPT !.trace = <<wcet_traces[i]>>]
         ELSE AssignFrom(task, wcet_traces, i + 1)

AssignTraces(tsks, wcet_traces) ==
    [k \in 1..Len(tsks) |-> AssignFrom(tsks[k], wcet_traces, 1)]

\* The largest number of a finite set of naturals, 0 for the empty set
\* (`let mut max = 0; ... if time > max { max = time; }`)
Maximum(S) == IF S = {} THEN 0 ELSE CHOOSE m \in S : \A n \in S : n <= m

\* (x as f32 / a).ceil() as u32 for a > 0, on values that f32 holds exactly;
\* CeilQuotient computes it on all u32 values
CeilDiv(x, a) == (x + a - 1) \div a

\* wcet: task.trace.as_ref().unwrap() is evaluated by callers only on tasks
\* that have a trace (see Unwrapped); t.end - t.start
wcet(task) ==
    LET t == task.trace[1] IN t.end - t.start

\* The priority of a task as the analysis reads it: ip.get(&task.name), 0 if absent
TaskPrio(task, ip) == IF HasKey(ip, task.name) THEN ip[task.name] ELSE 0

\* Mutant of max_time_hold_resource: the nodes below the root are not visited
max_time_hold_resource_RootOnly(trace, res_name) ==
    IF trace.name = res_name THEN trace.end - trace.start ELSE 0

\* max_time_hold_resource
RECURSIVE max_time_hold_resource(_, _)
max_time_hold_resource(trace, res_name) ==
    LET own == IF trace.name = res_name THEN trace.end - trace.start ELSE 0
    IN  Maximum({own} \cup {max_time_hold_resource(trace.inner[k], res_name) :
                               k \in 1..Len(trace.inner)})

\* blocking_time: the pairs (resource of the task, other task) that pass the
\* test of analysis.rs:84-86
BlockingPairs(task, tsks, ip, tr) ==
    LET task_prio == TaskPrio(task, ip)
        resources == IF HasKey(tr, task.name) THEN tr[task.name] ELSE {}
    IN  {q \in resources \X (1..Len(tsks)) :
            /\ HasKey(ip, tsks[q[2]].name)
            /\ HasKey(ip, q[1])
            /\ ip[tsks[q[2]].name] < task_prio
            /\ ip[q[1]] >= task_prio}

blocking_time(task, tsks, ip, tr) ==
    Maximum({0} \cup {max_time_hold_resource(tsks[q[2]].trace[1], q[1]) :
                         q \in BlockingPairs(task, tsks, ip, tr)})

\* The tasks of higher priority, as positions in the task vector (analysis.rs:45-47)
HigherTasks(task, tsks, ip) ==
    {k \in 1..Len(tsks) : HasKey(ip, tsks[k].name)
                          /\ ip[tsks[k].name] > TaskPrio(task, ip)}

\* The summation of preemption_rec (analysis.rs:45-53) from the i-th task on
RECURSIVE Interference(_, _, _, _, _)
Interference(task, tsks, ip, prev_rt, i) ==
    IF i > Len(tsks) THEN 0
    ELSE (IF i \in HigherTasks(task, tsks, ip)
          THEN wcet(tsks[i]) * CeilDiv(prev_rt, tsks[i].inter_arrival)
          ELSE 0)
         + Interference(task, tsks, ip, prev_rt, i + 1)

\* Mutant of preemption_rec: the iteration stops after one step
preemption_rec_OneStep(task, tsks, ip, tr, prev_rt) ==
    LET current_rt == wcet(task) + blocking_time(task, tsks, ip, tr)
                      + Interference(task, tsks, ip, prev_rt, 1)
    IN  IF current_rt > task.deadline THEN [ok |-> FALSE, rt |-> 0]
        ELSE [ok |-> TRUE, rt |-> current_rt]

\* preemption_rec: Ok(current_rt) or Err("Response time is larger than the deadline!")
RECURSIVE preemption_rec(_, _, _, _, _)
preemption_rec(task, tsks, ip, tr, prev_rt) ==
    LET current_rt == wcet(task) + blocking_time(task, tsks, ip, tr)
                      + Interference(task, tsks, ip, prev_rt, 1)
    IN  IF current_rt > task.deadline THEN [ok |-> FALSE, rt |-> 0]
        ELSE IF current_rt = prev_rt THEN [ok |-> TRUE, rt |-> current_rt]
        ELSE preemption_rec(task, tsks, ip, tr, current_rt)

\* Mutant of preemption: the converged response time is returned as it is
preemption_NoBase(task, tsks, ip, tr) ==
    LET base == wcet(task) + blocking_time(task, tsks, ip, tr)
        premp == preemption_rec(task, tsks, ip, tr, base)
    IN  IF premp.ok THEN [ok |-> TRUE, i |-> premp.rt]
        ELSE [ok |-> FALSE, i |-> 0]

\* preemption: Ok(premp - base) or the error of preemption_rec
preemption(task, tsks, ip, tr) ==
    LET base == wcet(task) + blocking_time(task, tsks, ip, tr)
        premp == preemption_rec(task, tsks, ip, tr, base)
    IN  IF premp.ok THEN [ok |-> TRUE, i |-> premp.rt - base]
        ELSE [ok |-> FALSE, i |-> 0]

\* load_factor: wcet as f32 / inter_arrival as f32, kept as the fraction
load_factor(task) == <<wcet(task), task.inter_arrival>>

AnalysisResult(name, r, c, b, i, l) ==
    [name |-> name, response_time |-> r, wcet |-> c, blocking_time |-> b,
     preemption_time |-> i, load_factor |-> l]

\* The positions of the tasks whose trace is unwrapped while one task is
\* analysed (mod.rs:72-74): the task itself by wcet, the tasks that pass the
\* test of blocking_time, and the tasks of higher priority in preemption_rec
Unwrapped(task, k, tsks, ip, tr) ==
    {k} \cup {q[2] : q \in BlockingPairs(task, tsks, ip, tr)}
        \cup HigherTasks(task, tsks, ip)

RunOutcome(status, res) == [status |-> status, res |-> res]

\* run_analysis: the loop from the k-th task on.  unwrap() on a task without
\* trace panics; the `?` on preemption returns the error and drops res.
RECURSIVE RunFrom(_, _, _, _, _)
RunFrom(tsks, priorities, tr, k, res) ==
    IF k > Len(tsks) THEN RunOutcome("Ok", res)
    ELSE LET task == tsks[k]
         IN  IF \E u \in Unwrapped(task, k, tsks, priorities, tr) : tsks[u].trace = <<>>
             THEN RunOutcome("Panic", <<>>)
             ELSE LET c == wcet(task)
                      b == blocking_time(task, tsks, priorities, tr)
                      p == preemption(task, tsks, priorities, tr)
                  IN  IF ~p.ok THEN RunOutcome("Err", <<>>)
                      ELSE RunFrom(tsks, priorities, tr, k + 1,
                               Append(res, AnalysisResult(task.name, c + b + p.i, c, b,
                                                          p.i, load_factor(task))))

run_analysis(tsks, priorities, tr) == RunFrom(tsks, priorities, tr, 1, <<>>)

NoRun == RunOutcome("None", <<>>)

\* No call of preemption is running
NoRecurrence ==
    [task |-> 0, base |-> <<0, 0>>, prev_rt |-> <<0, 0>>, status |-> "None",
     overflow_checks |-> FALSE]

(***************************************************************************)
(* Reference notions used to state the properties of the trace builder     *)
(***************************************************************************)
\* The Entry/Exit pairs of the same kind
ScopePairs == {<<"HardwareTaskStart", "HardwareTaskEnd">>,
               <<"ResourceLockStart", "ResourceLockEnd">>,
               <<"SoftwareTaskStart", "SoftwareTaskEnd">>}

\* A left-to-right reading of a sample list with the stack of open Entries.
\* It stops at the first of these events:
\*   "other"     an auxiliary marker is read
\*   "underflow" an Exit is read while no Entry is open
\*   "mismatch"  an Exit is read whose kind is not that of the most recently
\*               opened, still unclosed Entry
\*   "closed"    an Exit closes the first Entry of the list
\*   "end"       the list is exhausted
\* pos is the index of the sample of the event, open the Entries open before it.
RECURSIVE ScanFrom(_, _, _)
ScanFrom(list, i, open) ==
    IF i > Len(list) THEN [event |-> "end", pos |-> i, open |-> open]
    ELSE LET b == list[i].bkpt
         IN  CASE b.cat = "Entry" -> ScanFrom(list, i + 1, Append(open, b.v))
               [] b.cat = "Exit" ->
                    IF open = <<>>
                    THEN [event |-> "underflow", pos |-> i, open |-> open]
                    ELSE IF <<Last(open), b.v>> \notin ScopePairs
                    THEN [event |-> "mismatch", pos |-> i, open |-> open]
                    ELSE IF Len(open) = 1
                    THEN [event |-> "closed", pos |-> i, open |-> open]
                    ELSE ScanFrom(list, i + 1, Front(open))
               [] OTHER -> [event |-> "other", pos |-> i, open |-> open]

Scan(list) == ScanFrom(list, 1, <<>>)

CountCat(list, cat) == Cardinality({i \in 1..Len(list) : list[i].bkpt.cat = cat})

OnlyEntryExit(list) == \A i \in 1..Len(list) : list[i].bkpt.cat \in {"Entry", "Exit"}

\* The invariants of a Trace node (start <= end, children inside the node,
\* sorted by start and pairwise non-overlapping), at every depth
RECURSIVE WellFormedTrace(_)
WellFormedTrace(t) ==
    /\ t.start <= t.end
    /\ \A i \in 1..Len(t.inner) :
          /\ t.start <= t.inner[i].start
          /\ t.inner[i].start <= t.inner[i].end
          /\ t.inner[i].end <= t.end
          /\ WellFormedTrace(t.inner[i])
    /\ \A i \in 1..Len(t.inner) : \A j \in (i + 1)..Len(t.inner) :
          /\ t.inner[i].start <= t.inner[j].start
          /\ t.inner[i].end <= t.inner[j].start

Analysed == pc = "done"

(***************************************************************************)
(* Specification of the trace builder on arbitrary short sample lists      *)
(***************************************************************************)
\* The immediates a sample can carry: every Entry and Exit code and one
\* auxiliary code.
SampleImms == {0, 2, 3, 4, 251, 252, 253}

\* No measurement on hardware is running
EngineIdle ==
    /\ ktests = 0
    /\ measurements = <<>>
    /\ current_hw_bkpt = 0
    /\ halts = <<>>
    /\ failure = ""

\* No probe session is open
NoTarget == [pc |-> 0, bkpt |-> FALSE, imm |-> 0, lr |-> 0]

NoApp == [release |-> FALSE, objdump |-> <<>>]
NoCore == [pc |-> 0, mem |-> <<>>, log |-> <<>>]
NoDwarf == <<>>
NoKTest == [objects |-> <<>>, hw_reads |-> <<>>]

ProbeIdle ==
    /\ core_halted = TRUE
    /\ target = NoTarget
    /\ hw_breakpoints = {}
    /\ vcell_test_vectors = <<>>
    /\ written = <<>>
    /\ app = NoApp
    /\ ktest = NoKTest
    /\ running_access = FALSE
    /\ core = NoCore
    /\ dwarf = NoDwarf

LastCyccnt == IF measurement = <<>> THEN 0 ELSE Last(measurement).cyccnt

Init ==
    /\ measurement = <<>>
    /\ analysis = NoAnalysis
    /\ pc = "collect"
    /\ imm = 0
    /\ decoded = NoBreakpoint
    /\ tasks = <<>>
    /\ traces = <<>>
    /\ pre = NoPreAnalysis
    /\ results = NoRun
    /\ recurrence = NoRecurrence
    /\ EngineIdle
    /\ ProbeIdle

\* One sample is appended to the list of the vector, in execution order
PushSample ==
    /\ pc = "collect"
    /\ Len(measurement) < MaxLen
    /\ \E u \in SampleImms, n \in Names, d \in 0..MaxDelta :
          measurement' = Append(measurement, Sample(BreakpointFrom(u), n, LastCyccnt + d))
    /\ UNCHANGED <<probeVars, engineVars, analysis, pc, fromVars, analyzeVars>>

\* post_measurement_analysis hands the list to wcet_analysis
Analyse ==
    /\ pc = "collect"
    /\ analysis' = wcet_analysis(measurement)
    /\ pc' = "done"
    /\ UNCHANGED <<probeVars, engineVars, measurement, fromVars, analyzeVars>>

Next == PushSample \/ Analyse

Spec == Init /\ [][Next]_vars

(***************************************************************************)
(* Specification of the trace builder on deeper lists: samples are pushed  *)
(* while the first scope of the list is open and the list is well nested   *)
(* so far; the pushed sample itself is any Entry or any Exit.              *)
(***************************************************************************)
MaxEntries == 4     \* most Entry samples of a list

EntryImms == {2, 3, 4}
ExitImms == {251, 252, 253}

\* The name of a sample before an InsideTask/InsideLock halt refines it
BKPT_UNKNOWN_NAME == "<unknown>"

PushEntry ==
    /\ pc = "collect"
    /\ Scan(measurement).event = "end"
    /\ CountCat(measurement, "Entry") < MaxEntries
    /\ \E u \in EntryImms, n \in Names :
          measurement' = Append(measurement, Sample(BreakpointFrom(u), n, LastCyccnt + 1))
    /\ UNCHANGED <<probeVars, engineVars, analysis, pc, fromVars, analyzeVars>>

PushExit ==
    /\ pc = "collect"
    /\ Scan(measurement).event = "end"
    /\ \E u \in ExitImms :
          measurement' = Append(measurement,
                                Sample(BreakpointFrom(u), BKPT_UNKNOWN_NAME, LastCyccnt + 1))
    /\ UNCHANGED <<probeVars, engineVars, analysis, pc, fromVars, analyzeVars>>

NextNest == PushEntry \/ PushExit \/ Analyse

SpecNest == Init /\ [][NextNest]_vars

(***************************************************************************)
(* Specification of the trace builder on the nested-lock scenario: the     *)
(* samples of the scenario, the names of the Exit samples being free       *)
(***************************************************************************)
ScenarioNames == {"t1", "r1", "r2", "r3", BKPT_UNKNOWN_NAME}

ScenarioB(n1, n2, n3, n4) ==
    << Sample(Entry("SoftwareTaskStart"), "t1", 0),
       Sample(Entry("ResourceLockStart"), "r1", 5),
       Sample(Entry("ResourceLockStart"), "r2", 15),
       Sample(Entry("ResourceLockStart"), "r3", 25),
       Sample(Exit("ResourceLockEnd"), n1, 35),
       Sample(Exit("ResourceLockEnd"), n2, 45),
       Sample(Exit("ResourceLockEnd"), n3, 55),
       Sample(Exit("SoftwareTaskEnd"), n4, 60) >>

ScenarioBInputs ==
    {ScenarioB(n1, n2, n3, n4) : n1 \in ScenarioNames, n2 \in ScenarioNames,
                                 n3 \in ScenarioNames, n4 \in ScenarioNames}

InitScenario ==
    /\ measurement \in ScenarioBInputs
    /\ analysis = NoAnalysis
    /\ pc = "collect"
    /\ imm = 0
    /\ decoded = NoBreakpoint
    /\ tasks = <<>>
    /\ traces = <<>>
    /\ pre = NoPreAnalysis
    /\ results = NoRun
    /\ recurrence = NoRecurrence
    /\ EngineIdle
    /\ ProbeIdle

SpecScenario == InitScenario /\ [][Analyse]_vars

(***************************************************************************)
(* Specification of the conversion of a raw immediate into a Breakpoint    *)
(***************************************************************************)
U8Max == 255

InitFrom ==
    /\ measurement = <<>>
    /\ analysis = NoAnalysis
    /\ pc = "imm"
    /\ imm \in 0..U8Max
    /\ decoded = NoBreakpoint
    /\ tasks = <<>>
    /\ traces = <<>>
    /\ pre = NoPreAnalysis
    /\ results = NoRun
    /\ recurrence = NoRecurrence
    /\ EngineIdle
    /\ ProbeIdle

\* Breakpoint::from(imm)
Convert ==
    /\ pc = "imm"
    /\ decoded' = BreakpointFrom(imm)
    /\ pc' = "converted"
    /\ UNCHANGED <<probeVars, engineVars, builderVars, imm, analyzeVars>>

SpecFrom == InitFrom /\ [][Convert]_vars

(***************************************************************************)
(* Properties of the trace builder                                         *)
(***************************************************************************)
\* C1: every Trace of an Ok result of wcet_analysis is well formed: start <= end,
\* every child lies inside its parent, children are sorted by start and do not
\* overlap.
C1_TracesWellFormed ==
    (Analysed /\ analysis.status = "Ok") =>
        \A i \in 1..Len(analysis.traces) : WellFormedTrace(analysis.traces[i])

\* C2: a list of Entry and Exit samples with more Entries than Exits never
\* makes wcet_analysis return Ok.
C2_MoreEntriesIsError ==
    (/\ Analysed
     /\ OnlyEntryExit(measurement)
     /\ CountCat(measurement, "Entry") > CountCat(measurement, "Exit"))
        => analysis.status # "Ok"

\* C3: scope validation is LIFO and by kind.  The codes of an Entry and an Exit
\* sum to 255 exactly for the three pairs of the same kind; an Exit read while an
\* Entry is open whose kind differs from that of the most recently opened,
\* unclosed Entry makes the analysis fail with ScopeMismatch, and an Ok result
\* is never returned for a list read up to such an Exit.
C3_ScopeLifoByKind ==
    /\ \A e \in EntryVariants, x \in ExitVariants :
          (Discriminant(e) + Discriminant(x) = 255) <=> (<<e, x>> \in ScopePairs)
    /\ (Analysed /\ Scan(measurement).event = "mismatch") =>
          (analysis.status = "Err" /\ analysis.err = "ScopeMismatch")
    /\ (Analysed /\ analysis.err = "ScopeMismatch") =>
          Scan(measurement).event = "mismatch"

\* C3 witness: an Exit of the kind of the first Entry, read while a second Entry
\* of another kind is the most recent one open, has been analysed.
C3_Witness ==
    /\ Analysed
    /\ Len(measurement) = 3
    /\ Scan(measurement).event = "mismatch"
    /\ Scan(measurement).pos = 3
    /\ <<measurement[1].bkpt.v, measurement[3].bkpt.v>> \in ScopePairs

\* C4: an Exit read while the scope stack is empty makes wcet_analysis return
\* an error value (ScopeMismatch); the program does not abort.
C4_ExitOnEmptyStackIsError ==
    (Analysed /\ Scan(measurement).event = "underflow") =>
        (analysis.status = "Err" /\ analysis.err = "ScopeMismatch")

\* C5: wcet_analysis fails with EmptyInput on the empty list, and whenever the
\* reading arrives at the end of the list right after an Entry (the Entry is open
\* and nothing is left to read).
C5_EmptyInputIsError ==
    Analysed =>
        /\ measurement = <<>> =>
              (analysis.status = "Err" /\ analysis.err = "EmptyInput")
        /\ (/\ measurement # <<>>
            /\ Scan(measurement).event = "end"
            /\ Last(measurement).bkpt.cat = "Entry") =>
              (analysis.status = "Err" /\ analysis.err = "EmptyInput")

\* C5 witness: a list whose last sample is an Entry that follows a closed
\* nested pair has been analysed.
C5_Witness ==
    /\ Analysed
    /\ Len(measurement) = 4
    /\ Scan(measurement).event = "end"
    /\ measurement[3].bkpt.cat = "Exit"
    /\ measurement[4].bkpt.cat = "Entry"

\* The kind of scope an Entry opens
KindOfEntry(e) ==
    CASE e = "HardwareTaskStart" -> "HardwareTask"
      [] e = "ResourceLockStart" -> "ResourceLock"
      [] e = "SoftwareTaskStart" -> "SoftwareTask"

IsMatchedPair(list) ==
    /\ Len(list) = 2
    /\ list[1].bkpt.cat = "Entry"
    /\ list[2].bkpt.cat = "Exit"
    /\ <<list[1].bkpt.v, list[2].bkpt.v>> \in ScopePairs

\* C6: one Entry (e, n, a) followed by its paired Exit (x, _, b), a <= b, gives
\* exactly one Trace: name n, kind of e, start a, empty inner, end b.
C6_SinglePair ==
    (Analysed /\ IsMatchedPair(measurement)
              /\ measurement[1].cyccnt <= measurement[2].cyccnt) =>
        /\ analysis.status = "Ok"
        /\ analysis.traces =
              << [name |-> measurement[1].name,
                  ttype |-> KindOfEntry(measurement[1].bkpt.v),
                  start |-> measurement[1].cyccnt,
                  inner |-> <<>>,
                  end |-> measurement[2].cyccnt] >>

\* C6 witness: a matched pair with different names and a positive cycle delta
\* has been analysed.
C6_Witness ==
    /\ Analysed
    /\ IsMatchedPair(measurement)
    /\ measurement[1].name # measurement[2].name
    /\ measurement[1].cyccnt < measurement[2].cyccnt

(***************************************************************************)
(* Specification of the pre-analysis: the task declarations and the traces *)
(* are drawn from bounded sets, then pre_analysis runs on them             *)
(***************************************************************************)
MaxTasks == 2       \* most task declarations
MaxTraces == 2      \* most measured traces
MaxPriority == 2    \* highest declared priority

\* A task and the root of its traces are named after the task's function; a
\* node inside a trace is named after the resource type of its lock.  The two
\* kinds of names are distinct in measured data and are kept distinct here.
DeclNames == {"t1", "t2"}           \* names of declared tasks and of trace roots
InnerNames == {"r1", "r2"}          \* names of the nodes inside a trace
Deadlines == {100}
InterArrivals == {100}
RootEnds == {8, 9}

TaskUniverse ==
    {Task(n, p, d, a) : n \in DeclNames, p \in 1..MaxPriority,
                        d \in Deadlines, a \in InterArrivals}

Lock(n, start, inner, end) == Trace(n, "ResourceLock", start, inner, end)

\* The names of a lock nested in another lock, and of two locks one after
\* the other
NestedInner == {<<"r1", "r2">>}
SiblingInner == {<<"r2", "r1">>}

\* A root with no node inside, with one lock, with a lock nested in another
\* lock, or with two different locks one after the other
TraceUniverse ==
    {Trace(n, "HardwareTask", 0, <<>>, e) : n \in DeclNames, e \in RootEnds}
    \cup {Trace(n, "HardwareTask", 0, <<Lock(x, 1, <<>>, 3)>>, e) :
             n \in DeclNames, x \in InnerNames, e \in RootEnds}
    \cup {Trace(n, "HardwareTask", 0, <<Lock(q[1], 1, <<Lock(q[2], 2, <<>>, 4)>>, 6)>>, e) :
             n \in DeclNames, q \in NestedInner, e \in RootEnds}
    \cup {Trace(n, "HardwareTask", 0, <<Lock(q[1], 1, <<>>, 3), Lock(q[2], 4, <<>>, 7)>>, e) :
             n \in DeclNames, q \in SiblingInner, e \in RootEnds}

SeqsUpTo(S, n) == UNION {[1..k -> S] : k \in 0..n}

InitAnalyze ==
    /\ measurement = <<>>
    /\ analysis = NoAnalysis
    /\ pc = "input"
    /\ imm = 0
    /\ decoded = NoBreakpoint
    /\ tasks \in SeqsUpTo(TaskUniverse, MaxTasks)
    /\ traces \in SeqsUpTo(TraceUniverse, MaxTraces)
    /\ pre = NoPreAnalysis
    /\ results = NoRun
    /\ recurrence = NoRecurrence
    /\ EngineIdle
    /\ ProbeIdle

\* response_time_analysis calls data::pre_analysis(&tasks, &traces) and gives
\* every task its WCET trace (mod.rs:40-49)
PreAnalysis ==
    /\ pc = "input"
    /\ pre' = pre_analysis(tasks, traces)
    /\ tasks' = AssignTraces(tasks, pre'.wcet_traces)
    /\ pc' = "pre"
    /\ UNCHANGED <<probeVars, engineVars, builderVars, fromVars, traces, results, recurrence>>

SpecAnalyze == InitAnalyze /\ [][PreAnalysis]_vars

(***************************************************************************)
(* Specification of the response-time analysis: task sets with distinct    *)
(* names, each task with one measured trace or none, and the task set of   *)
(* scenario E; pre_analysis runs, then run_analysis                        *)
(***************************************************************************)
MaxRtaTasks == 3    \* most tasks of an analysed task set

RtaNames == <<"t1", "t2", "t3", "t4", "t5">>
RtaPriorities == {1, 2}
RtaDeadlines == {6, 20}
RtaInterArrivals == {10}

\* The measured trace of task n: none (0), or a root without lock (1), with a
\* lock of r1 (2), with a lock of r2 nested in a lock of r1 (3), or with two
\* locks of r1 (4)
RtaShapes == 0..4

RtaTrace(n, shape) ==
    CASE shape = 0 -> <<>>
      [] shape = 1 -> <<Trace(n, "HardwareTask", 0, <<>>, 2)>>
      [] shape = 2 -> <<Trace(n, "HardwareTask", 0, <<Lock("r1", 1, <<>>, 3)>>, 4)>>
      [] shape = 3 -> <<Trace(n, "HardwareTask", 0,
                              <<Lock("r1", 1, <<Lock("r2", 2, <<>>, 3)>>, 4)>>, 5)>>
      [] shape = 4 -> <<Trace(n, "HardwareTask", 0,
                              <<Lock("r1", 1, <<>>, 2), Lock("r1", 3, <<>>, 6)>>, 6)>>

\* The traces of the first k tasks, in the order of the tasks
RECURSIVE RtaTracesUpTo(_, _)
RtaTracesUpTo(shapes, k) ==
    IF k = 0 THEN <<>>
    ELSE RtaTracesUpTo(shapes, k - 1) \o RtaTrace(RtaNames[k], shapes[k])

\* Scenario E: hi{p=3, T=100, D=50, C=5} and lo{p=1, T=1000, D=900, C=20}, no
\* resource; either order of the tasks and of the traces, two root starts
ScenarioEHi == Task("hi", 3, 50, 100)
ScenarioELo == Task("lo", 1, 900, 1000)
ScenarioEStarts == {0, 7}

ScenarioEInputs ==
    {[tasks |-> ts, traces |-> tr] :
        ts \in {<<ScenarioEHi, ScenarioELo>>, <<ScenarioELo, ScenarioEHi>>},
        tr \in UNION {{<<Trace("hi", "HardwareTask", s, <<>>, s + 5),
                         Trace("lo", "HardwareTask", s, <<>>, s + 20)>>,
                       <<Trace("lo", "HardwareTask", s, <<>>, s + 20),
                         Trace("hi", "HardwareTask", s, <<>>, s + 5)>>} :
                      s \in ScenarioEStarts}}

\* Scenario F: hi{p=3} locks r for 2 cycles, lo{p=1} holds r for 50 cycles;
\* either order of the tasks and of the traces, two root starts of lo
ScenarioFHi == Task("hi", 3, 200, 1000)
ScenarioFLo == Task("lo", 1, 900, 1000)
ScenarioFStarts == {0, 7}

ScenarioFInputs ==
    {[tasks |-> ts, traces |-> tr] :
        ts \in {<<ScenarioFHi, ScenarioFLo>>, <<ScenarioFLo, ScenarioFHi>>},
        tr \in UNION {{<<Trace("hi", "HardwareTask", 0, <<Lock("r", 2, <<>>, 4)>>, 10),
                         Trace("lo", "HardwareTask", s, <<Lock("r", s + 5, <<>>, s + 55)>>,
                               s + 60)>>,
                       <<Trace("lo", "HardwareTask", s, <<Lock("r", s + 5, <<>>, s + 55)>>,
                               s + 60),
                         Trace("hi", "HardwareTask", 0, <<Lock("r", 2, <<>>, 4)>>, 10)>>} :
                      s \in ScenarioFStarts}}

InitRta ==
    /\ measurement = <<>>
    /\ analysis = NoAnalysis
    /\ pc = "input"
    /\ imm = 0
    /\ decoded = NoBreakpoint
    /\ \/ \E k \in 1..MaxRtaTasks :
             \E ps \in [1..k -> RtaPriorities], ds \in [1..k -> RtaDeadlines],
                as \in [1..k -> RtaInterArrivals], shapes \in [1..k -> RtaShapes] :
                 /\ tasks = [i \in 1..k |-> Task(RtaNames[i], ps[i], ds[i], as[i])]
                 /\ traces = RtaTracesUpTo(shapes, k)
       \/ \E in \in ScenarioEInputs : tasks = in.tasks /\ traces = in.traces
       \/ \E in \in ScenarioFInputs : tasks = in.tasks /\ traces = in.traces
    /\ pre = NoPreAnalysis
    /\ results = NoRun
    /\ recurrence = NoRecurrence
    /\ EngineIdle
    /\ ProbeIdle

\* response_time_analysis calls run_analysis(&tasks, &p, &t)
RunAnalysis ==
    /\ pc = "pre"
    /\ results' = run_analysis(tasks, pre.priorities, pre.task_resources)
    /\ pc' = "ran"
    /\ UNCHANGED <<probeVars, engineVars, builderVars, fromVars, tasks, traces, pre, recurrence>>

NextRta == PreAnalysis \/ RunAnalysis

SpecRta == InitRta /\ [][NextRta]_vars

(***************************************************************************)
(* The tree of a nesting, read off the list with a stack of open nodes     *)
(***************************************************************************)
\* The node on top of the stack of open nodes gets one more child
AttachChild(open, child) ==
    [open EXCEPT ![Len(open)].inner = Append(@, child)]

\* On an Entry a new open node is pushed; on an Exit the top node is closed
\* with the cycle count of the Exit and attached to the node below it, or to
\* the forest when no node is below it.
RECURSIVE NestFrom(_, _, _, _)
NestFrom(list, i, open, forest) ==
    IF i > Len(list) THEN forest
    ELSE LET s == list[i]
         IN  IF s.bkpt.cat = "Entry"
             THEN NestFrom(list, i + 1,
                           Append(open, [name |-> s.name,
                                         ttype |-> KindOfEntry(s.bkpt.v),
                                         start |-> s.cyccnt,
                                         inner |-> <<>>,
                                         end |-> 0]),
                           forest)
             ELSE LET closed == [Last(open) EXCEPT !.end = s.cyccnt]
                  IN  IF Len(open) = 1
                      THEN NestFrom(list, i + 1, <<>>, Append(forest, closed))
                      ELSE NestFrom(list, i + 1, AttachChild(Front(open), closed), forest)

NestForest(list) == NestFrom(list, 1, <<>>, <<>>)

\* First sample an Entry, last sample its matching Exit, every Exit of the kind
\* of the Entry it closes
Balanced(list) ==
    /\ list # <<>>
    /\ Scan(list).event = "closed"
    /\ Scan(list).pos = Len(list)

\* The number of Entries open after the first i samples of a balanced list
OpenAfter(list, i) ==
    CountCat(SubSeq(list, 1, i), "Entry") - CountCat(SubSeq(list, 1, i), "Exit")

MaxOpen(list) ==
    CHOOSE d \in 0..Len(list) :
        /\ \E i \in 0..Len(list) : OpenAfter(list, i) = d
        /\ \A i \in 0..Len(list) : OpenAfter(list, i) <= d

RECURSIVE NodeCount(_)
NodeCount(t) ==
    LET RECURSIVE Sum(_)
        Sum(k) == IF k = 0 THEN 0 ELSE NodeCount(t.inner[k]) + Sum(k - 1)
    IN  1 + Sum(Len(t.inner))

RECURSIVE Depth(_)
Depth(t) ==
    LET RECURSIVE Max(_)
        Max(k) == IF k = 0 THEN 0
                  ELSE LET d == Depth(t.inner[k])
                           m == Max(k - 1)
                       IN  IF d > m THEN d ELSE m
    IN  1 + Max(Len(t.inner))

\* C7: for a balanced, well-nested list wcet_analysis returns the tree of the
\* nesting: one node per Entry, named after its Entry, from the cycle count of
\* the Entry to that of its matching Exit; nested Entries are children (k
\* nested scopes give depth k) and closed pairs inside a scope are siblings in
\* input order.
C7_NestingTree ==
    (Analysed /\ Balanced(measurement)) =>
        /\ analysis.status = "Ok"
        /\ analysis.traces = NestForest(measurement)
        /\ Len(analysis.traces) = 1
        /\ NodeCount(analysis.traces[1]) = CountCat(measurement, "Entry")
        /\ Depth(analysis.traces[1]) = MaxOpen(measurement)

\* C7 witness: a balanced list in which a pair follows a closed nested chain
\* inside the first scope (Entry Entry Entry Exit Exit Entry Exit Exit) has been
\* analysed.
C7_Witness ==
    /\ Analysed
    /\ Balanced(measurement)
    /\ Len(measurement) = 8
    /\ [i \in 1..8 |-> measurement[i].bkpt.cat] =
          <<"Entry", "Entry", "Entry", "Exit", "Exit", "Entry", "Exit", "Exit">>

IsScenarioB(list) == list \in ScenarioBInputs

\* The nested chain r1[5..55] > r2[15..45] > r3[25..35] of the scenario
ScenarioBLocks ==
    << [name |-> "r1", ttype |-> "ResourceLock", start |-> 5, end |-> 55,
        inner |-> << [name |-> "r2", ttype |-> "ResourceLock", start |-> 15, end |-> 45,
                      inner |-> << [name |-> "r3", ttype |-> "ResourceLock",
                                    start |-> 25, end |-> 35, inner |-> <<>>] >>] >>] >>

\* C8 as stated: on the nested-lock scenario the root t1 has the interval
\* [5..60] and contains r1[5..55], which contains r2[15..45], which contains
\* r3[25..35].
C8_ScenarioB_AsStated ==
    (Analysed /\ IsScenarioB(measurement)) =>
        /\ analysis.status = "Ok"
        /\ analysis.traces =
              << [name |-> "t1", ttype |-> "SoftwareTask", start |-> 5, end |-> 60,
                  inner |-> ScenarioBLocks] >>

\* C8 amended: on the nested-lock scenario the root t1 has the interval
\* [0..60] (it starts at the cycle count of its Entry sample) and contains
\* r1[5..55], which contains r2[15..45], which contains r3[25..35].
C8_ScenarioB ==
    (Analysed /\ IsScenarioB(measurement)) =>
        /\ analysis.status = "Ok"
        /\ analysis.traces =
              << [name |-> "t1", ttype |-> "SoftwareTask", start |-> 0, end |-> 60,
                  inner |-> ScenarioBLocks] >>

\* C8 witness: the scenario has been analysed, its Exit samples carrying names
\* other than those of the scopes they close.
C8_Witness ==
    /\ Analysed
    /\ IsScenarioB(measurement)
    /\ measurement[5].name = "t1"
    /\ measurement[8].name = BKPT_UNKNOWN_NAME

(***************************************************************************)
(* Properties of the conversion of an immediate                            *)
(***************************************************************************)
EntryCodes == {2, 3, 4}
ExitCodes == {251, 252, 253}
OtherCodes == {0, 1, 5, 254, 255}

Converted == pc = "converted"

\* C9: Breakpoint::from(u) is defined for every u in 0..=255; for an assigned
\* code it is the Entry, Exit or Other variant with that code, and for every
\* other u (100 included) it is Other(Invalid).
C9_FromIsTotal ==
    Converted =>
        /\ \/ decoded.cat = "Entry" /\ decoded.v \in EntryVariants
           \/ decoded.cat = "Exit" /\ decoded.v \in ExitVariants
           \/ decoded.cat = "Other" /\ decoded.v \in OtherVariants
        /\ imm \in EntryCodes => (decoded.cat = "Entry" /\ Discriminant(decoded.v) = imm)
        /\ imm \in ExitCodes => (decoded.cat = "Exit" /\ Discriminant(decoded.v) = imm)
        /\ imm \in OtherCodes => (decoded.cat = "Other" /\ Discriminant(decoded.v) = imm)
        /\ imm \notin (EntryCodes \cup ExitCodes \cup OtherCodes) => decoded = Other("Invalid")

\* C9 witness: the immediate 100 has been converted.
C9_Witness == Converted /\ imm = 100 /\ decoded = Other("Invalid")

(***************************************************************************)
(* Properties of the pre-analysis                                          *)
(***************************************************************************)
PreAnalysed == pc = "pre"

SetMax(S) == CHOOSE m \in S : \A x \in S : x <= m

\* The priorities of the declared tasks whose resource set contains r
UserPriorities(r) ==
    {tasks[j].priority : j \in {k \in 1..Len(tasks) :
         /\ HasKey(pre.task_resources, tasks[k].name)
         /\ r \in pre.task_resources[tasks[k].name]}}

Ran == pc = "ran"

\* C11: every AnalysisResult that run_analysis produces is the result of the
\* task at the same position, its response time is at most the declared
\* deadline of that task, and it is the sum of the wcet, the blocking time and
\* the preemption time of the result.
C11_ResponseWithinDeadline ==
    (Ran /\ results.status = "Ok") =>
        /\ Len(results.res) = Len(tasks)
        /\ \A k \in 1..Len(results.res) :
              LET r == results.res[k]
              IN  /\ r.name = tasks[k].name
                  /\ r.response_time <= tasks[k].deadline
                  /\ r.response_time = r.wcet + r.blocking_time + r.preemption_time

\* C11 witness: a run that produced three results, one of them with a
\* positive preemption time and one with a positive blocking time.
C11_Witness ==
    /\ Ran
    /\ results.status = "Ok"
    /\ Len(results.res) = 3
    /\ \E k \in 1..3 : results.res[k].preemption_time > 0
    /\ \E k \in 1..3 : results.res[k].blocking_time > 0

\* The nodes of a trace tree, the root included
RECURSIVE NodesOf(_)
NodesOf(trace) ==
    {trace} \cup UNION {NodesOf(trace.inner[k]) : k \in 1..Len(trace.inner)}

\* The longest end - start of a node named r in a trace tree, 0 if there is none
LongestHold(trace, r) ==
    Maximum({n.end - n.start : n \in {m \in NodesOf(trace) : m.name = r}})

\* The blocking time of the k-th task by the rule of the stack resource
\* policy: the longest hold, by a task of strictly lower priority, of one of
\* that task's resources whose ceiling is at least the priority of the k-th task
SrpBlocking(k) ==
    Maximum(UNION {{LongestHold(tasks[j].trace[1], r) :
                       r \in {x \in (IF HasKey(pre.task_resources, tasks[j].name)
                                     THEN pre.task_resources[tasks[j].name] ELSE {}) :
                                 pre.priorities[x] >= tasks[k].priority}} :
                   j \in {i \in 1..Len(tasks) : tasks[i].priority < tasks[k].priority}})

\* C12: the blocking time of every analysed task is the longest hold, by a
\* task of strictly lower priority, of a resource of that task whose ceiling
\* is at least the priority of the analysed task, whether or not the analysed
\* task locks that resource itself.
C12_BlockingTime ==
    (Ran /\ results.status = "Ok") =>
        \A k \in 1..Len(results.res) : results.res[k].blocking_time = SrpBlocking(k)

\* Every declared task has a WCET trace
AllTraced == \A k \in 1..Len(tasks) : tasks[k].trace # <<>>

\* C(t) of the k-th task and its C(t) + B(t)
DurationOf(k) == tasks[k].trace[1].end - tasks[k].trace[1].start
BaseOf(k) == DurationOf(k) + blocking_time(tasks[k], tasks, pre.priorities, pre.task_resources)

\* The least n with n * t >= r, for t > 0
Ceiling(r, t) == CHOOSE n \in 0..r : n * t >= r /\ \A m \in 0..r : m * t >= r => n <= m

\* The sum of f over a finite set of positions
RECURSIVE SumOver(_, _)
SumOver(S, f) ==
    IF S = {} THEN 0
    ELSE LET x == CHOOSE y \in S : TRUE IN f[x] + SumOver(S \ {x}, f)

\* R(k+1) from R(k) for the k-th task
NextIterate(k, r) ==
    LET higher == {j \in 1..Len(tasks) : tasks[j].priority > tasks[k].priority}
    IN  BaseOf(k) + SumOver(higher, [j \in higher |->
                                DurationOf(j) * Ceiling(r, tasks[j].inter_arrival)])

DeadlineExceeded == [converged |-> FALSE, r |-> 0]
Converged(r) == [converged |-> TRUE, r |-> r]

\* The first iterate that repeats, or DeadlineExceeded as soon as an iterate
\* is above the deadline
RECURSIVE FixedPoint(_, _)
FixedPoint(k, r) ==
    LET n == NextIterate(k, r)
    IN  IF n > tasks[k].deadline THEN DeadlineExceeded
        ELSE IF n = r THEN Converged(r)
        ELSE FixedPoint(k, n)

IsScenarioE ==
    /\ Len(tasks) = 2
    /\ {[tasks[k] EXCEPT !.trace = <<>>] : k \in 1..2} = {ScenarioEHi, ScenarioELo}

\* The result of the task of that name
ResultOf(n) == results.res[CHOOSE k \in 1..Len(results.res) : results.res[k].name = n]

TracesOf(k) == {i \in 1..Len(traces) : traces[i].name = tasks[k].name}

DurationAt(i) == traces[i].end - traces[i].start

\* The first position, in input order, of a trace of the k-th task of maximal
\* duration
LongestOf(k) ==
    CHOOSE i \in TracesOf(k) :
        /\ \A j \in TracesOf(k) : DurationAt(j) <= DurationAt(i)
        /\ \A j \in TracesOf(k) : DurationAt(j) = DurationAt(i) => i <= j

\* C14: after the pre-analysis every declared task that has measured traces
\* carries the first of its traces of maximal duration, its wcet is the
\* duration of that trace, a task without measured trace carries none, and
\* every WCET trace is the trace of a declared task.
C14_LongestTrace ==
    PreAnalysed =>
        /\ \A k \in 1..Len(tasks) :
              IF TracesOf(k) = {} THEN tasks[k].trace = <<>>
              ELSE /\ tasks[k].trace = <<traces[LongestOf(k)]>>
                   /\ wcet(tasks[k]) = DurationAt(LongestOf(k))
        /\ \A i \in 1..Len(pre.wcet_traces) :
              \E k \in 1..Len(tasks) :
                  /\ TracesOf(k) # {}
                  /\ pre.wcet_traces[i] = traces[LongestOf(k)]

\* C14 witness: the only declared task has a shorter trace followed by a
\* longer one, and carries the longer one.
C14_Witness ==
    /\ PreAnalysed
    /\ Len(tasks) = 1
    /\ Len(traces) = 2
    /\ traces[1].name = tasks[1].name
    /\ traces[2].name = tasks[1].name
    /\ DurationAt(1) < DurationAt(2)
    /\ tasks[1].trace = <<traces[2]>>

(***************************************************************************)
(* Properties of the task resources                                        *)
(***************************************************************************)
\* The names of the proper descendants of the root of a trace
DescendantNames(trace) == {n.name : n \in NodesOf(trace) \ {trace}}

\* C15: after the pre-analysis the resources of a task that has a WCET trace
\* are the names of all nodes below the root of that trace, at any depth; a
\* task has an entry in task_resources exactly if there is such a node.
C15_TaskResources ==
    PreAnalysed =>
        \A k \in 1..Len(tasks) :
            LET names == IF tasks[k].trace = <<>> THEN {}
                         ELSE DescendantNames(tasks[k].trace[1])
            IN  /\ HasKey(pre.task_resources, tasks[k].name) <=> names # {}
                /\ names # {} => pre.task_resources[tasks[k].name] = names

\* C15 witness: the WCET trace of a declared task holds a lock nested in
\* another lock, and both names are resources of the task.
C15_Witness ==
    /\ PreAnalysed
    /\ Len(tasks) >= 1
    /\ tasks[1].trace # <<>>
    /\ Len(tasks[1].trace[1].inner) = 1
    /\ Len(tasks[1].trace[1].inner[1].inner) = 1
    /\ Cardinality(pre.task_resources[tasks[1].name]) = 2

(***************************************************************************)
(* Properties of the error handling of the analyzer                        *)
(***************************************************************************)
\* The iteration of the k-th task goes above its deadline
OverDeadline(k) == ~FixedPoint(k, BaseOf(k)).converged

\* C16: when the response time of a task exceeds its deadline the run does
\* not fail, and the result of every other task is still produced.
C16_DeadlineIsDiagnostic ==
    (Ran /\ AllTraced /\ \E k \in 1..Len(tasks) : OverDeadline(k)) =>
        /\ results.status = "Ok"
        /\ \A j \in 1..Len(tasks) :
              ~OverDeadline(j) =>
                  \E i \in 1..Len(results.res) : results.res[i].name = tasks[j].name

(***************************************************************************)
(* Measurement on hardware: src/src/measure/hardware.rs,                   *)
(* src/src/measure/mod.rs                                                  *)
(***************************************************************************)
MaxHalts == 4       \* most halts of the core during one measurement
MaxVectors == 2     \* most test vectors of one measurement

\* Breakpoint::from of the measure module.  Its file (measure/breakpoints.rs)
\* is not among the sources; by the marker table of the specification it is
\* the conversion of analysis/breakpoints.rs with 5 as InsideHardwareRead.
MeasureBreakpointFrom(u) ==
    IF u = 5 THEN Other("InsideHardwareRead") ELSE BreakpointFrom(u)

\* The immediates of the software breakpoints the core halts on
EngineImms == {0, 1, 2, 5, 251, 253, 254, 255}

\* What read_breakpoint_task_name / read_breakpoint_lock_name return
ResolvedNames == {"t1", BKPT_UNKNOWN_NAME}

\* What get_current_vcell_from_lr finds: no accessor (None), or an accessor
\* with the high_pc of its address ranges, which may be none
HwAddrs == {8}
VcellOutcomes ==
    {[found |-> FALSE, ranges |-> <<>>], [found |-> TRUE, ranges |-> <<>>]}
        \cup {[found |-> TRUE, ranges |-> <<a>>] : a \in HwAddrs}

\* Mutant of handle_breakpoint: InsideHardwareRead falls to the last arm
handle_breakpoint_ReadIsSample(bkpt) ==
    IF bkpt = Other("ReplayStart") THEN "Break"
    ELSE IF bkpt \in {Other("InsideTask"), Other("InsideLock")} THEN "Continue"
    ELSE "Nothing"

\* handle_breakpoint: the LoopAction returned for a breakpoint
handle_breakpoint(bkpt) ==
    IF bkpt = Other("ReplayStart") THEN "Break"
    ELSE IF bkpt \in {Other("InsideTask"), Other("InsideLock"),
                      Other("InsideHardwareRead")} THEN "Continue"
    ELSE "Nothing"

\* Mutant of Rename: the first sample of the list gets the name
Rename_First(list, name) == [list EXCEPT ![1].name = name]

\* handle_breakpoint, InsideTask and InsideLock: measurements.pop().unwrap()
\* and measurements.push((b, name, u)) on a list that is not empty
Rename(list, name) ==
    LET popped == Last(list)
    IN  Append(Front(list), Sample(popped.bkpt, name, popped.cyccnt))

\* One halt of the core, as the history keeps it: the vector being measured,
\* the cause ("sw" software breakpoint, "hw" hardware breakpoint, "none"),
\* the marker, the name resolved at the halt and the cycle counter read at it
Halt(vector, kind, bkpt, name, cyccnt) ==
    [vector |-> vector, kind |-> kind, bkpt |-> bkpt, name |-> name, cyccnt |-> cyccnt]

\* The vector being measured
CurrentVector == Len(measurements) + 1

InitMeasure ==
    /\ measurement = <<>>
    /\ analysis = NoAnalysis
    /\ pc = "prelude"
    /\ imm = 0
    /\ decoded = NoBreakpoint
    /\ tasks = <<>>
    /\ traces = <<>>
    /\ pre = NoPreAnalysis
    /\ results = NoRun
    /\ recurrence = NoRecurrence
    /\ ktests \in 1..MaxVectors
    /\ measurements = <<>>
    /\ current_hw_bkpt = 0
    /\ halts = <<>>
    /\ failure = ""
    /\ ProbeIdle

\* measure_replay_harness, one vector: run_to_replay_start and
\* write_replay_objects succeed and read_breakpoints starts
StartVector ==
    /\ pc = "prelude"
    /\ measurement' = <<>>
    /\ current_hw_bkpt' = 0
    /\ pc' = "loop"
    /\ UNCHANGED <<probeVars, analysis, fromVars, analyzeVars, ktests, measurements, halts, failure>>

\* read_breakpoints: wait_for_core_halted fails, the error is returned through
\* measure_replay_harness
HaltTimeout ==
    /\ pc = "loop"
    /\ pc' = "failed"
    /\ failure' = "CoreDoesNotHalt"
    /\ UNCHANGED <<probeVars, builderVars, fromVars, analyzeVars, ktests, measurements,
                   current_hw_bkpt, halts>>

\* read_breakpoints: the core halts at the programmed hardware breakpoint
HwBreakpointHit ==
    /\ pc = "loop"
    /\ Len(halts) < MaxHalts
    /\ current_hw_bkpt # 0
    /\ current_hw_bkpt' = 0
    /\ halts' = Append(halts, Halt(CurrentVector, "hw", NoBreakpoint, BKPT_UNKNOWN_NAME, 0))
    /\ UNCHANGED <<probeVars, builderVars, pc, fromVars, analyzeVars, ktests, measurements, failure>>

\* read_breakpoints: the core halts, but not at a breakpoint
HaltWithoutBreakpoint ==
    /\ pc = "loop"
    /\ Len(halts) < MaxHalts
    /\ halts' = Append(halts, Halt(CurrentVector, "none", NoBreakpoint, BKPT_UNKNOWN_NAME, 0))
    /\ pc' = "failed"
    /\ failure' = "HaltedWithoutBreakpoint"
    /\ UNCHANGED <<probeVars, builderVars, fromVars, analyzeVars, ktests, measurements,
                   current_hw_bkpt>>

\* read_breakpoints: a software breakpoint for which handle_breakpoint returns
\* LoopAction::Break; read_breakpoints returns the list
ReplayStartHalt ==
    /\ pc = "loop"
    /\ Len(halts) < MaxHalts
    /\ \E u \in EngineImms :
          LET bkpt == MeasureBreakpointFrom(u)
          IN  /\ handle_breakpoint(bkpt) = "Break"
              /\ halts' = Append(halts, Halt(CurrentVector, "sw", bkpt, BKPT_UNKNOWN_NAME, 0))
    /\ pc' = "returned"
    /\ UNCHANGED <<probeVars, builderVars, fromVars, analyzeVars, ktests, measurements,
                   current_hw_bkpt, failure>>

\* read_breakpoints: an InsideTask or InsideLock breakpoint; the name is read
\* and the last sample is popped and pushed back with it.  pop().unwrap()
\* panics on an empty list.
InsideHalt ==
    /\ pc = "loop"
    /\ Len(halts) < MaxHalts
    /\ \E u \in EngineImms, name \in ResolvedNames :
          LET bkpt == MeasureBreakpointFrom(u)
          IN  /\ bkpt \in {Other("InsideTask"), Other("InsideLock")}
              /\ handle_breakpoint(bkpt) = "Continue"
              /\ halts' = Append(halts, Halt(CurrentVector, "sw", bkpt, name, 0))
              /\ IF measurement = <<>>
                 THEN /\ pc' = "aborted"
                      /\ failure' = "unwrap on None"
                      /\ UNCHANGED measurement
                 ELSE /\ measurement' = Rename(measurement, name)
                      /\ UNCHANGED <<probeVars, pc, failure>>
    /\ UNCHANGED <<probeVars, analysis, fromVars, analyzeVars, ktests, measurements, current_hw_bkpt>>

\* read_breakpoints: an InsideHardwareRead breakpoint; when the link register
\* lies in a hardware accessor the hardware breakpoint is programmed at its
\* high_pc
HardwareReadHalt ==
    /\ pc = "loop"
    /\ Len(halts) < MaxHalts
    /\ \E u \in EngineImms, vcell \in VcellOutcomes :
          LET bkpt == MeasureBreakpointFrom(u)
          IN  /\ bkpt = Other("InsideHardwareRead")
              /\ handle_breakpoint(bkpt) = "Continue"
              /\ halts' = Append(halts, Halt(CurrentVector, "sw", bkpt, BKPT_UNKNOWN_NAME, 0))
              /\ CASE ~vcell.found -> UNCHANGED <<probeVars, pc, failure, current_hw_bkpt>>
                   [] vcell.found /\ vcell.ranges = <<>> ->
                        /\ pc' = "failed"
                        /\ failure' = "Subroutine has no address ranges"
                        /\ UNCHANGED current_hw_bkpt
                   [] OTHER ->
                        /\ current_hw_bkpt' = Last(vcell.ranges)
                        /\ UNCHANGED <<probeVars, pc, failure>>
    /\ UNCHANGED <<probeVars, builderVars, fromVars, analyzeVars, ktests, measurements>>

\* read_breakpoints: a software breakpoint for which handle_breakpoint returns
\* LoopAction::Nothing; the cycle counter is read and the sample is pushed
SampleHalt ==
    /\ pc = "loop"
    /\ Len(halts) < MaxHalts
    /\ \E u \in EngineImms, d \in 1..MaxDelta :
          LET bkpt == MeasureBreakpointFrom(u)
              cyccnt == LastCyccnt + d
          IN  /\ handle_breakpoint(bkpt) = "Nothing"
              /\ halts' = Append(halts, Halt(CurrentVector, "sw", bkpt, BKPT_UNKNOWN_NAME, cyccnt))
              /\ measurement' = Append(measurement, Sample(bkpt, BKPT_UNKNOWN_NAME, cyccnt))
    /\ UNCHANGED <<probeVars, analysis, pc, fromVars, analyzeVars, ktests, measurements,
                   current_hw_bkpt, failure>>

\* measure_replay_harness: measurements.push(bkpts), then the next vector or
\* the return of all lists
PushMeasurement ==
    /\ pc = "returned"
    /\ measurements' = Append(measurements, measurement)
    /\ pc' = IF Len(measurements) + 1 < ktests THEN "prelude" ELSE "measured"
    /\ UNCHANGED <<probeVars, builderVars, fromVars, analyzeVars, ktests, current_hw_bkpt,
                   halts, failure>>

\* post_measurement_analysis: the traces of the lists for which wcet_analysis
\* returns Ok, from the i-th list on
RECURSIVE TracesFrom(_, _)
TracesFrom(lists, i) ==
    IF i > Len(lists) THEN <<>>
    ELSE LET r == wcet_analysis(lists[i])
         IN  (IF r.status = "Ok" THEN r.traces ELSE <<>>) \o TracesFrom(lists, i + 1)

post_measurement_analysis(lists) == TracesFrom(lists, 1)

\* wcet_measurement: post_measurement_analysis(measurements); a panic of
\* wcet_analysis on one list aborts the program
PostMeasurementAnalysis ==
    /\ pc = "measured"
    /\ IF \E i \in 1..Len(measurements) : wcet_analysis(measurements[i]).status = "Panic"
       THEN /\ pc' = "aborted"
            /\ failure' = "unwrap on None"
            /\ UNCHANGED traces
       ELSE /\ traces' = post_measurement_analysis(measurements)
            /\ pc' = "analysed"
            /\ UNCHANGED failure
    /\ UNCHANGED <<probeVars, builderVars, fromVars, tasks, pre, results, recurrence, ktests, measurements,
                   current_hw_bkpt, halts>>

NextMeasure ==
    \/ StartVector
    \/ HaltTimeout
    \/ HwBreakpointHit
    \/ HaltWithoutBreakpoint
    \/ ReplayStartHalt
    \/ InsideHalt
    \/ HardwareReadHalt
    \/ SampleHalt
    \/ PushMeasurement
    \/ PostMeasurementAnalysis

SpecMeasure == InitMeasure /\ [][NextMeasure]_vars

(***************************************************************************)
(* Properties of the measurement loop                                      *)
(***************************************************************************)
\* The halts of the vector being measured, in halt order
CurrentHalts == SelectSeq(halts, LAMBDA h : h.vector = CurrentVector)

IsReplayStart(h) == h.kind = "sw" /\ h.bkpt = Other("ReplayStart")

\* A software-breakpoint halt that is recorded as a sample
Recorded(h) ==
    /\ h.kind = "sw"
    /\ h.bkpt \notin {Other("InsideTask"), Other("InsideLock"),
                      Other("InsideHardwareRead"), Other("ReplayStart")}

\* The name of the sample recorded at the i-th halt of hs: the name resolved
\* at the last InsideTask or InsideLock halt before the next recorded halt,
\* the unknown name without such a halt
RECURSIVE NameAfter(_, _, _)
NameAfter(hs, i, name) ==
    IF i > Len(hs) \/ Recorded(hs[i]) THEN name
    ELSE IF hs[i].kind = "sw" /\ hs[i].bkpt \in {Other("InsideTask"), Other("InsideLock")}
         THEN NameAfter(hs, i + 1, hs[i].name)
         ELSE NameAfter(hs, i + 1, name)

\* The samples of a sequence of halts
SamplesOf(hs) ==
    LET recorded == SelectSeq([i \in 1..Len(hs) |-> i], LAMBDA i : Recorded(hs[i]))
    IN  [k \in 1..Len(recorded) |->
            Sample(hs[recorded[k]].bkpt,
                   NameAfter(hs, recorded[k] + 1, BKPT_UNKNOWN_NAME),
                   hs[recorded[k]].cyccnt)]

\* C18: the loop of a vector has returned its list exactly if the vector has
\* a ReplayStart halt, which is then its last halt; the returned list is, in
\* halt order, one sample for every earlier software-breakpoint halt whose
\* marker is not InsideTask, InsideLock or InsideHardwareRead, with the marker
\* and the cycle counter of that halt; hardware-breakpoint hits and the
\* ReplayStart halt add no sample.
C18_ReturnedList ==
    /\ pc = "loop" => \A i \in 1..Len(CurrentHalts) : ~IsReplayStart(CurrentHalts[i])
    /\ pc = "returned" =>
          /\ CurrentHalts # <<>>
          /\ \A i \in 1..Len(CurrentHalts) :
                IsReplayStart(CurrentHalts[i]) <=> i = Len(CurrentHalts)
          /\ measurement = SamplesOf(CurrentHalts)

\* C18 witness: a list is returned after a recorded halt, a hardware-read
\* halt and the hit of the hardware breakpoint.
C18_Witness ==
    /\ pc = "returned"
    /\ Len(measurement) = 1
    /\ \E i \in 1..Len(CurrentHalts) : CurrentHalts[i].kind = "hw"
    /\ \E i \in 1..Len(CurrentHalts) : CurrentHalts[i].bkpt = Other("InsideHardwareRead")

\* The halt added by a step of the measurement loop
NewHalt == halts'[Len(halts')]

\* C19: a step of the loop on an InsideTask or InsideLock halt, taken with at
\* least one recorded sample, keeps the number of samples, every sample but
\* the last, and the marker and the cycle count of the last sample, whose
\* name becomes the name resolved at the halt.
C19_RenameOnlyLast ==
    [][(/\ pc = "loop"
        /\ measurement # <<>>
        /\ Len(halts') = Len(halts) + 1
        /\ NewHalt.kind = "sw"
        /\ NewHalt.bkpt \in {Other("InsideTask"), Other("InsideLock")})
       => (/\ Len(measurement') = Len(measurement)
           /\ \A i \in 1..(Len(measurement) - 1) : measurement'[i] = measurement[i]
           /\ Last(measurement').bkpt = Last(measurement).bkpt
           /\ Last(measurement').cyccnt = Last(measurement).cyccnt
           /\ Last(measurement').name = NewHalt.name)]_vars

\* C19 witness: after two recorded samples an InsideTask or InsideLock halt
\* has given a name to the second one.
C19_Witness ==
    /\ pc = "loop"
    /\ Len(measurement) = 2
    /\ halts # <<>>
    /\ Last(halts).bkpt \in {Other("InsideTask"), Other("InsideLock")}
    /\ measurement[1].name = BKPT_UNKNOWN_NAME
    /\ measurement[2].name = "t1"

\* C20: a list returned by the measurement loop holds only Entry and Exit
\* markers.
C20_OnlyEntryExitReturned ==
    pc = "returned" =>
        \A i \in 1..Len(measurement) : measurement[i].bkpt.cat \in {"Entry", "Exit"}

\* The trace builder returns Ok on the i-th measured list
BuilderOk(i) == wcet_analysis(measurements[i]).status = "Ok"

\* The traces of the measured lists on which the trace builder returns Ok, in
\* the order of the vectors, from the i-th list on
RECURSIVE OkTracesFrom(_)
OkTracesFrom(i) ==
    IF i > Len(measurements) THEN <<>>
    ELSE (IF BuilderOk(i) THEN wcet_analysis(measurements[i]).traces ELSE <<>>)
         \o OkTracesFrom(i + 1)

\* C17: a failure of one vector does not end the measurement of the vectors
\* after it: the measurement never stops on a halt without breakpoint while
\* vectors remain, and when all lists are analysed the output holds the
\* traces of every vector on which the trace builder did not fail.
C17_PerVectorFailure ==
    /\ (pc = "failed" /\ failure = "HaltedWithoutBreakpoint") => CurrentVector = ktests
    /\ pc = "analysed" => /\ Len(measurements) = ktests
                          /\ traces = OkTracesFrom(1)

(***************************************************************************)
(* The measurement engine with the debug probe:                            *)
(* src/src/measure/hardware.rs, src/src/utils/probe.rs                     *)
(***************************************************************************)
MaxEngineHalts == 5     \* most halts of the core during one engine run
MaxEngineVectors == 2   \* most test vectors of one engine run

\* The immediates of the software breakpoints of the replay harness:
\* InsideTask, an Entry, InsideHardwareRead and ReplayStart
TargetImms == {1, 2, 5, 255}

\* The addresses the core halts at
TargetPcs == {8, 12}

\* The values of the link register at a halt
TargetLrs == {2, 6, 12}

\* The states the core can halt in: the PC, whether a BKPT instruction is at
\* the PC, its immediate, and the link register
Targets ==
    {[pc |-> a, bkpt |-> FALSE, imm |-> 0, lr |-> 0] : a \in TargetPcs}
        \cup {[pc |-> a, bkpt |-> TRUE, imm |-> u, lr |-> 0] :
                 a \in TargetPcs, u \in TargetImms \ {5}}
        \cup {[pc |-> a, bkpt |-> TRUE, imm |-> 5, lr |-> l] :
                 a \in TargetPcs, l \in TargetLrs}

\* Subroutine
Subroutine(name, ranges) == [name |-> name, ranges |-> ranges]

\* app.vcells: the hardware accessors of the binary, with their address ranges
Vcells ==
    << Subroutine("vcell_outer", << <<4, 12>> >>),
       Subroutine("vcell_get", << <<4, 8>> >>),
       Subroutine("vcell_as_ptr", << <<2, 3>>, <<10, 12>> >>) >>

\* app.variables: the replay variables that have an address
Variables == [n \in {"a"} |-> 32]

\* The instructions of the disassembly, as the tokens that
\* split(&[' ', ','][..]) yields
Instructions ==
    { <<"ldr", "r3", "", "[r0]">>,
      <<"ldrb", "r7", "", "[r1]">>,
      <<"ldr", "r8", "", "[r0]">>,
      <<"str", "r0", "", "[r1]">> }

\* app.objdump: the same instruction, or none, before each accessor end
Objdumps ==
    {<<>>} \cup {[a \in {6, 10} |-> i] : i \in Instructions}

\* The objects of a test vector: a name and its bytes
KTestObject(name, bytes) == [name |-> name, num_bytes |-> Len(bytes), bytes |-> bytes]

\* The object lists of the test vectors: "a" has an address, "b" has none
ObjectLists ==
    LET a == KTestObject("a", <<1>>)
        b == KTestObject("b", <<2>>)
    IN  {<<>>, <<a, b>>, <<b, a>>}

\* The hardware-read values of the test vectors: two values of four bytes
\* and one of two bytes
HwReadLists ==
    LET v == KTestObject("vcell", <<1, 0, 0, 0>>)
        w == KTestObject("vcell", <<0, 1, 0, 0>>)
        short == KTestObject("vcell", <<7, 7>>)
    IN  {<<>>, <<v>>, <<v, w>>, <<short, v>>}

KTests == {[objects |-> os, hw_reads |-> hs] : os \in ObjectLists, hs \in HwReadLists}

\* get_vcell_ktestobjects: the hardware-read values of a vector, in the order
\* of the vector.  Its file is not among the sources; by the specification it
\* is vector.hw_reads.
get_vcell_ktestobjects(kt) == kt.hw_reads

\* Mutant of InitialVcellStack: the values are not reversed
InitialVcellStack_NotReversed(kt) == get_vcell_ktestobjects(kt)

\* read_breakpoints: vcell_test_vectors after get_vcell_ktestobjects and reverse()
InitialVcellStack(kt) == Reverse(get_vcell_ktestobjects(kt))

\* u32::from_le_bytes
from_le_bytes(b) == b[1] + 256 * b[2] + 65536 * b[3] + 16777216 * b[4]

\* A write to the target
MemWrite(a, bytes) == [kind |-> "mem", at |-> a, data |-> bytes]
RegWrite(r, data) == [kind |-> "reg", at |-> r, data |-> <<data>>]

\* write_vcell_test_to_register: the writes it makes
write_vcell_test_to_register(register, test) ==
    IF test.num_bytes = 4
    THEN <<RegWrite(register, from_le_bytes(test.bytes))>>
    ELSE <<>>

\* Mutant of write_replay_objects: the loop ends at the first missing address
RECURSIVE write_replay_objects_Stop(_, _)
write_replay_objects_Stop(objects, locations) ==
    IF objects = <<>> THEN <<>>
    ELSE IF Head(objects).name \in DOMAIN locations
         THEN <<MemWrite(locations[Head(objects).name], Head(objects).bytes)>>
                  \o write_replay_objects_Stop(Tail(objects), locations)
         ELSE <<>>

\* write_replay_objects: the writes it makes, in order
RECURSIVE write_replay_objects(_, _)
write_replay_objects(objects, locations) ==
    IF objects = <<>> THEN <<>>
    ELSE (IF Head(objects).name \in DOMAIN locations
          THEN <<MemWrite(locations[Head(objects).name], Head(objects).bytes)>>
          ELSE <<>>)
         \o write_replay_objects(Tail(objects), locations)

\* Option<T>
None == <<>>
Some(x) == <<x>>

\* asm.contains("ld") on the mnemonics of Instructions
ContainsLd(asm) == asm \in {"ldr", "ldrb"}

\* parse_reg_from_load_instruction
parse_reg_from_load_instruction(instruction) ==
    IF ContainsLd(instruction[1])
    THEN CASE instruction[2] = "r0" -> Some(0)
           [] instruction[2] = "r1" -> Some(1)
           [] instruction[2] = "r2" -> Some(2)
           [] instruction[2] = "r3" -> Some(3)
           [] instruction[2] = "r4" -> Some(4)
           [] instruction[2] = "r5" -> Some(5)
           [] instruction[2] = "r6" -> Some(6)
           [] instruction[2] = "r7" -> Some(7)
           [] OTHER -> None
    ELSE None

\* Objdump::get_instruction
get_instruction(objdump, address) ==
    IF address \in DOMAIN objdump THEN Some(objdump[address]) ELSE None

\* Mutant of get_output_reg_from_breakpoint_addr: the build is not looked at
get_output_reg_from_breakpoint_addr_Parse(a, breakpoint_address) ==
    LET instruction == get_instruction(a.objdump, breakpoint_address - 2)
    IN  IF instruction = None THEN None
        ELSE parse_reg_from_load_instruction(instruction[1])

\* get_output_reg_from_breakpoint_addr: Some(reg) for Ok(reg), None for Err
get_output_reg_from_breakpoint_addr(a, breakpoint_address) ==
    IF a.release
    THEN LET instruction == get_instruction(a.objdump, breakpoint_address - 2)
         IN  IF instruction = None THEN None
             ELSE parse_reg_from_load_instruction(instruction[1])
    ELSE Some(0)

\* Subroutine::range_from_address: the last range that holds the address
RECURSIVE range_from_address(_, _)
range_from_address(ranges, address) ==
    IF ranges = <<>> THEN None
    ELSE LET r == Last(ranges)
         IN  IF r[1] <= address /\ address <= r[2] THEN Some(r)
             ELSE range_from_address(Front(ranges), address)

\* get_subroutines_address_in_range: copies with only the range that holds
\* the address
RECURSIVE get_subroutines_address_in_range(_, _)
get_subroutines_address_in_range(subroutines, address) ==
    IF subroutines = <<>> THEN <<>>
    ELSE LET res == range_from_address(Head(subroutines).ranges, address)
         IN  (IF res # None
              THEN <<Subroutine(Head(subroutines).name, <<res[1]>>)>>
              ELSE <<>>)
             \o get_subroutines_address_in_range(Tail(subroutines), address)

\* get_shortest_range_subroutine: the first subroutine of the strictly
\* shortest range
RECURSIVE ShortestFrom(_, _, _)
ShortestFrom(subs, i, ok) ==
    IF i > Len(subs) THEN ok
    ELSE LET range == subs[i].ranges[1][2] - subs[i].ranges[1][1]
         IN  IF ok = None \/ range < ok[1].ranges[1][2] - ok[1].ranges[1][1]
             THEN ShortestFrom(subs, i + 1, Some(subs[i]))
             ELSE ShortestFrom(subs, i + 1, ok)

get_shortest_range_subroutine(subroutines_in_range) ==
    ShortestFrom(subroutines_in_range, 1, None)

\* get_current_vcell_from_lr
get_current_vcell_from_lr(lr, vcells) ==
    get_shortest_range_subroutine(get_subroutines_address_in_range(vcells, lr - 1))

\* handle_breakpoint, InsideHardwareRead: the address at which the hardware
\* breakpoint is programmed
HwBreakpointAddress(current_vcell, a) == Last(current_vcell.ranges)[2]

\* Mutant of Classify: the breakpoint instruction is looked for first
Classify_BreakpointFirst(current_pc, hw_bkpt, is_bkpt) ==
    IF ~is_bkpt THEN "none"
    ELSE IF current_pc = hw_bkpt /\ hw_bkpt # 0 THEN "hw"
    ELSE "marker"

\* read_breakpoints: the branch taken for a halt
Classify(current_pc, hw_bkpt, is_bkpt) ==
    IF current_pc = hw_bkpt /\ hw_bkpt # 0 THEN "hw"
    ELSE IF ~is_bkpt THEN "none"
    ELSE "marker"

\* One halt as the history of the engine keeps it: the vector and the branch
\* taken for the halt ("prelude" in run_to_replay_start)
EngineHalt(vector, class) == [vector |-> vector, class |-> class]

\* probe::read_breakpoint_value on a halted core: Some(imm) for Ok(imm), None
\* for Err
read_breakpoint_value(t) == IF t.bkpt THEN Some(t.imm) ELSE None

\* What read_breakpoint_value returns.  On a running core the register
\* transfer is unpredictable: it fails or yields any value.
ReadOutcomes ==
    IF core_halted THEN {read_breakpoint_value(target)}
    ELSE {None} \cup {Some(u) : u \in TargetImms}

InitEngine ==
    /\ measurement = <<>>
    /\ analysis = NoAnalysis
    /\ pc = "prelude"
    /\ imm = 0
    /\ decoded = NoBreakpoint
    /\ tasks = <<>>
    /\ traces = <<>>
    /\ pre = NoPreAnalysis
    /\ results = NoRun
    /\ recurrence = NoRecurrence
    /\ ktests \in 1..MaxEngineVectors
    /\ measurements = <<>>
    /\ current_hw_bkpt = 0
    /\ halts = <<>>
    /\ failure = ""
    /\ core_halted = FALSE
    /\ target = NoTarget
    /\ hw_breakpoints = {}
    /\ vcell_test_vectors = <<>>
    /\ written = <<>>
    /\ app \in {[release |-> r, objdump |-> o] : r \in BOOLEAN, o \in Objdumps}
    /\ ktest = NoKTest
    /\ running_access = FALSE
    /\ core = NoCore
    /\ dwarf = NoDwarf

\* The target: the running core halts
CoreHalts ==
    /\ pc \in {"prelude", "read", "inject", "run", "wait"}
    /\ ~core_halted
    /\ Len(halts) < MaxEngineHalts
    /\ core_halted' = TRUE
    /\ target' \in Targets
    /\ UNCHANGED <<builderVars, pc, fromVars, analyzeVars, engineVars, hw_breakpoints,
                   vcell_test_vectors, written, app, core, dwarf, ktest, running_access>>

\* run_to_replay_start: wait_for_core_halted returns Ok
RunToReplayStartHalted ==
    /\ pc = "prelude"
    /\ core_halted
    /\ pc' = "read"
    /\ UNCHANGED <<builderVars, fromVars, analyzeVars, engineVars, probeVars>>

\* run_to_replay_start: wait_for_core_halted fails after the timeout
RunToReplayStartTimeout ==
    /\ pc = "prelude"
    /\ ~core_halted
    /\ pc' = "failed"
    /\ failure' = "CoreDoesNotHalt"
    /\ UNCHANGED <<builderVars, fromVars, analyzeVars, ktests, measurements,
                   current_hw_bkpt, halts, core_halted, target, hw_breakpoints,
                   vcell_test_vectors, written, app, core, dwarf, ktest, running_access>>

\* run_to_replay_start: read_breakpoint_value fails
RunToReplayStartNoBreakpoint ==
    /\ pc = "read"
    /\ None \in ReadOutcomes
    /\ pc' = "failed"
    /\ failure' = "Not a breakpoint instruction"
    /\ running_access' = (running_access \/ ~core_halted)
    /\ halts' = IF core_halted
                THEN Append(halts, EngineHalt(CurrentVector, "prelude"))
                ELSE halts
    /\ UNCHANGED <<builderVars, fromVars, analyzeVars, ktests, measurements,
                   current_hw_bkpt, core_halted, target, hw_breakpoints,
                   vcell_test_vectors, written, app, core, dwarf, ktest>>

\* run_to_replay_start: the immediate read is ReplayStart, the loop breaks
RunToReplayStartBreak ==
    /\ pc = "read"
    /\ Some(U8Max) \in ReadOutcomes
    /\ pc' = "inject"
    /\ running_access' = (running_access \/ ~core_halted)
    /\ halts' = IF core_halted
                THEN Append(halts, EngineHalt(CurrentVector, "prelude"))
                ELSE halts
    /\ UNCHANGED <<builderVars, fromVars, analyzeVars, ktests, measurements,
                   current_hw_bkpt, failure, core_halted, target, hw_breakpoints,
                   vcell_test_vectors, written, app, core, dwarf, ktest>>

\* run_to_replay_start: another immediate is read, probe::run resumes the
\* core and the loop reads again
RunToReplayStartContinue ==
    /\ pc = "read"
    /\ \E u \in TargetImms \ {U8Max} : Some(u) \in ReadOutcomes
    /\ core_halted' = FALSE
    /\ running_access' = (running_access \/ ~core_halted)
    /\ halts' = IF core_halted
                THEN Append(halts, EngineHalt(CurrentVector, "prelude"))
                ELSE halts
    /\ UNCHANGED <<builderVars, pc, fromVars, analyzeVars, ktests, measurements,
                   current_hw_bkpt, failure, target, hw_breakpoints,
                   vcell_test_vectors, written, app, core, dwarf, ktest>>

\* measure_replay_harness: write_replay_objects with the vector of this
\* iteration, then the start of read_breakpoints
WriteReplayObjects ==
    /\ pc = "inject"
    /\ ktest' \in KTests
    /\ LET writes == write_replay_objects(ktest'.objects, Variables)
       IN  /\ written' = writes
           /\ running_access' = (running_access \/ (~core_halted /\ writes # <<>>))
    /\ measurement' = <<>>
    /\ current_hw_bkpt' = 0
    /\ vcell_test_vectors' = InitialVcellStack(ktest')
    /\ pc' = "run"
    /\ UNCHANGED <<analysis, fromVars, analyzeVars, ktests, measurements, halts, failure,
                   core_halted, target, hw_breakpoints, app, core, dwarf>>

\* read_breakpoints: probe::run steps over the breakpoint at the PC of a
\* halted core and resumes the core
ReadBreakpointsRun ==
    /\ pc = "run"
    /\ core_halted' = FALSE
    /\ pc' = "wait"
    /\ UNCHANGED <<builderVars, fromVars, analyzeVars, engineVars, target, hw_breakpoints,
                   vcell_test_vectors, written, app, core, dwarf, ktest, running_access>>

\* read_breakpoints: wait_for_core_halted fails after the timeout
ReadBreakpointsTimeout ==
    /\ pc = "wait"
    /\ ~core_halted
    /\ pc' = "failed"
    /\ failure' = "CoreDoesNotHalt"
    /\ UNCHANGED <<builderVars, fromVars, analyzeVars, ktests, measurements,
                   current_hw_bkpt, halts, core_halted, target, hw_breakpoints,
                   vcell_test_vectors, written, app, core, dwarf, ktest, running_access>>

\* read_breakpoints: the core halted at the pending hardware breakpoint
ReadBreakpointsHw ==
    /\ pc = "wait"
    /\ core_halted
    /\ Classify(target.pc, current_hw_bkpt, target.bkpt) = "hw"
    /\ LET reg == get_output_reg_from_breakpoint_addr(app, current_hw_bkpt)
       IN  /\ halts' = Append(halts, EngineHalt(CurrentVector, "hw"))
           /\ IF reg = None
              THEN /\ pc' = "failed"
                   /\ failure' = "No load register"
                   /\ UNCHANGED <<current_hw_bkpt, hw_breakpoints, vcell_test_vectors,
                                  written>>
              ELSE /\ hw_breakpoints' = hw_breakpoints \ {current_hw_bkpt}
                   /\ current_hw_bkpt' = 0
                   /\ IF vcell_test_vectors # <<>>
                      THEN /\ written' = written \o
                                  write_vcell_test_to_register(reg[1], Last(vcell_test_vectors))
                           /\ vcell_test_vectors' = Front(vcell_test_vectors)
                      ELSE UNCHANGED <<written, vcell_test_vectors>>
                   /\ pc' = "run"
                   /\ UNCHANGED failure
    /\ UNCHANGED <<builderVars, fromVars, analyzeVars, ktests, measurements,
                   core_halted, target, app, core, dwarf, ktest, running_access>>

\* read_breakpoints: the core halted, but not at a breakpoint
ReadBreakpointsNoBreakpoint ==
    /\ pc = "wait"
    /\ core_halted
    /\ Classify(target.pc, current_hw_bkpt, target.bkpt) = "none"
    /\ halts' = Append(halts, EngineHalt(CurrentVector, "none"))
    /\ pc' = "failed"
    /\ failure' = "HaltedWithoutBreakpoint"
    /\ UNCHANGED <<builderVars, fromVars, analyzeVars, ktests, measurements,
                   current_hw_bkpt, probeVars>>

\* read_breakpoints: the marker of a software breakpoint is handled
ReadBreakpointsMarker ==
    /\ pc = "wait"
    /\ core_halted
    /\ Classify(target.pc, current_hw_bkpt, target.bkpt) = "marker"
    /\ halts' = Append(halts, EngineHalt(CurrentVector, "marker"))
    /\ LET bkpt == MeasureBreakpointFrom(target.imm)
       IN  CASE handle_breakpoint(bkpt) = "Break" ->
                  /\ pc' = "returned"
                  /\ UNCHANGED <<measurement, current_hw_bkpt, hw_breakpoints, failure>>
             [] bkpt \in {Other("InsideTask"), Other("InsideLock")} ->
                  /\ \E name \in ResolvedNames :
                        IF measurement = <<>>
                        THEN /\ pc' = "aborted"
                             /\ failure' = "unwrap on None"
                             /\ UNCHANGED measurement
                        ELSE /\ measurement' = Rename(measurement, name)
                             /\ pc' = "run"
                             /\ UNCHANGED failure
                  /\ UNCHANGED <<current_hw_bkpt, hw_breakpoints>>
             [] bkpt = Other("InsideHardwareRead") ->
                  LET current_vcell == get_current_vcell_from_lr(target.lr, Vcells)
                  IN  /\ IF current_vcell = None
                         THEN UNCHANGED <<current_hw_bkpt, hw_breakpoints>>
                         ELSE /\ current_hw_bkpt' = HwBreakpointAddress(current_vcell[1], app)
                              /\ hw_breakpoints' = hw_breakpoints \cup {current_hw_bkpt'}
                      /\ pc' = "run"
                      /\ UNCHANGED <<measurement, failure>>
             [] OTHER ->
                  /\ measurement' =
                        Append(measurement, Sample(bkpt, BKPT_UNKNOWN_NAME, LastCyccnt + 1))
                  /\ pc' = "run"
                  /\ UNCHANGED <<current_hw_bkpt, hw_breakpoints, failure>>
    /\ UNCHANGED <<analysis, fromVars, analyzeVars, ktests, measurements, core_halted,
                   target, vcell_test_vectors, written, app, core, dwarf, ktest, running_access>>

NextEngine ==
    \/ CoreHalts
    \/ RunToReplayStartHalted
    \/ RunToReplayStartTimeout
    \/ RunToReplayStartNoBreakpoint
    \/ RunToReplayStartBreak
    \/ RunToReplayStartContinue
    \/ WriteReplayObjects
    \/ ReadBreakpointsRun
    \/ ReadBreakpointsTimeout
    \/ ReadBreakpointsHw
    \/ ReadBreakpointsNoBreakpoint
    \/ ReadBreakpointsMarker
    \/ PushMeasurement

SpecEngine == InitEngine /\ [][NextEngine]_vars

(***************************************************************************)
(* Properties of the measurement engine                                    *)
(***************************************************************************)
\* A step of read_breakpoints that handles the outcome of wait_for_core_halted
LoopStep == pc = "wait" /\ pc' # "wait"

\* The core halted at the pending hardware breakpoint
AtPendingHwBkpt == target.pc = current_hw_bkpt /\ current_hw_bkpt # 0

\* C21: a halt of the measurement loop at the non-zero pending hardware
\* breakpoint is handled as a hardware-read interception (no sample, no
\* return, the pending address reset unless the hit fails), also when a
\* breakpoint instruction is at the PC; any other halt without a breakpoint
\* instruction at the PC ends the measurement with HaltedWithoutBreakpoint
\* and no list is added; any other halt is dispatched on its marker; a
\* timeout of the wait ends the measurement.
C21_HaltClassification ==
    [][LoopStep =>
        /\ (core_halted /\ AtPendingHwBkpt) =>
              /\ Last(halts').class = "hw"
              /\ measurement' = measurement
              /\ pc' \in {"run", "failed"}
              /\ pc' = "run" => current_hw_bkpt' = 0
        /\ (core_halted /\ ~AtPendingHwBkpt /\ ~target.bkpt) =>
              /\ pc' = "failed"
              /\ failure' = "HaltedWithoutBreakpoint"
              /\ measurements' = measurements
        /\ (core_halted /\ ~AtPendingHwBkpt /\ target.bkpt) =>
              /\ Last(halts').class = "marker"
              /\ handle_breakpoint(MeasureBreakpointFrom(target.imm)) = "Break"
                    <=> pc' = "returned"
              /\ handle_breakpoint(MeasureBreakpointFrom(target.imm)) = "Nothing"
                    <=> Len(measurement') = Len(measurement) + 1
        /\ ~core_halted =>
              /\ pc' = "failed"
              /\ failure' = "CoreDoesNotHalt"
              /\ measurements' = measurements]_vars

\* C21 witness: a halt at the pending hardware breakpoint, where a ReplayStart
\* breakpoint instruction sits, was handled as a hit of the hardware
\* breakpoint.
C21_Witness ==
    /\ pc = "run"
    /\ halts # <<>>
    /\ Last(halts).class = "hw"
    /\ target.bkpt
    /\ target.imm = U8Max
    /\ current_hw_bkpt = 0

\* The hits of the hardware breakpoint handled so far for the vector being
\* measured
HwHits == Len(SelectSeq(halts, LAMBDA h : h.vector = CurrentVector /\ h.class = "hw"))

\* A sequence of bytes read as a little-endian number
RECURSIVE LittleEndian(_)
LittleEndian(bytes) ==
    IF bytes = <<>> THEN 0 ELSE Head(bytes) + 256 * LittleEndian(Tail(bytes))

\* The step that starts the measurement loop of a vector
LoopStart == pc = "inject" /\ pc' = "run"

\* A step that handles a hit of the hardware breakpoint without failing
HwHitStep == LoopStep /\ core_halted /\ AtPendingHwBkpt /\ pc' = "run"

InjectedWrites(objects) ==
    LET located == SelectSeq(objects, LAMBDA o : o.name \in DOMAIN Variables)
    IN  [i \in 1..Len(located) |-> MemWrite(Variables[located[i].name], located[i].bytes)]

C24_NoAccessWhileRunning == running_access = FALSE

\* C25: at most one hardware breakpoint is programmed on the target at any
\* time.
C25_OneHardwareBreakpoint == Cardinality(hw_breakpoints) <= 1

\* C26: the prelude ends successfully only with the core halted on a
\* ReplayStart breakpoint; a breakpoint with another immediate is stepped
\* over by a resume followed by a wait for the next halt, so that every
\* immediate of the prelude is read from a halted core; the prelude does not
\* fail on a breakpoint instruction.
C26_Prelude ==
    /\ pc = "inject" => (core_halted /\ target.bkpt /\ target.imm = U8Max)
    /\ pc = "read" => core_halted
    /\ (pc = "failed" /\ failure = "Not a breakpoint instruction") =>
          (core_halted /\ ~target.bkpt)

(***************************************************************************)
(* The loops of the analyzer over hash sets, with the order of iteration   *)
(***************************************************************************)
\* The orders in which set.iter() can yield the elements of a set
Perms(S) ==
    {f \in [1..Cardinality(S) -> S] :
        \A i, j \in 1..Cardinality(S) : i # j => f[i] # f[j]}

\* get_priorites, the loop over the resources of one task (data.rs:110-118),
\* the resources being yielded in the given order
RECURSIVE ResourceCeilingsInOrder(_, _, _)
ResourceCeilingsInOrder(priorities, task, order) ==
    IF order = <<>> THEN priorities
    ELSE LET resource == Head(order)
             inserted ==
                 IF HasKey(priorities, resource)
                 THEN IF task.priority > priorities[resource]
                      THEN Insert(priorities, resource, task.priority)
                      ELSE priorities
                 ELSE Insert(priorities, resource, task.priority)
         IN  ResourceCeilingsInOrder(inserted, task, Tail(order))

\* get_priorites, the set of every task being yielded in the order orders
\* gives for the task; the loop from the i-th task on
RECURSIVE PrioritiesInOrderFrom(_, _, _, _, _)
PrioritiesInOrderFrom(tsks, task_resources, orders, i, priorities) ==
    IF i > Len(tsks) THEN priorities
    ELSE LET task == tsks[i]
             own == Insert(priorities, task.name, task.priority)
         IN  IF HasKey(task_resources, task.name)
             THEN PrioritiesInOrderFrom(tsks, task_resources, orders, i + 1,
                      ResourceCeilingsInOrder(own, task, orders[task.name]))
             ELSE PrioritiesInOrderFrom(tsks, task_resources, orders, i + 1, own)

get_priorites_in_order(tsks, task_resources, orders) ==
    PrioritiesInOrderFrom(tsks, task_resources, orders, 1, EmptyMap)

\* blocking_time, the loops of analysis.rs:82-94 from the i-th resource of
\* the order and the j-th task on, max_block_time being the running maximum
RECURSIVE BlockingFrom(_, _, _, _, _, _, _)
BlockingFrom(task, tsks, ip, order, i, j, max_block_time) ==
    IF i > Len(order) THEN max_block_time
    ELSE IF j > Len(tsks) THEN BlockingFrom(task, tsks, ip, order, i + 1, 1, max_block_time)
    ELSE LET r == order[i]
             t == tsks[j]
             passes == /\ HasKey(ip, t.name)
                       /\ HasKey(ip, r)
                       /\ ip[t.name] < TaskPrio(task, ip)
                       /\ ip[r] >= TaskPrio(task, ip)
         IN  BlockingFrom(task, tsks, ip, order, i, j + 1,
                 IF passes /\ max_time_hold_resource(t.trace[1], r) > max_block_time
                 THEN max_time_hold_resource(t.trace[1], r)
                 ELSE max_block_time)

blocking_time_in_order(task, tsks, ip, order) ==
    BlockingFrom(task, tsks, ip, order, 1, 1, 0)

(***************************************************************************)
(* Determinism of the analyzer                                             *)
(***************************************************************************)
\* Every choice of an iteration order for the resource set of every task
AllOrders(tr) ==
    {o \in [DOMAIN tr -> UNION {Perms(tr[n]) : n \in DOMAIN tr}] :
        \A n \in DOMAIN tr : o[n] \in Perms(tr[n])}

\* The order in which the resources of a task are yielded, none without set
OrderOf(o, task) == IF task.name \in DOMAIN o THEN o[task.name] ELSE <<>>

\* C27: whatever the order in which the resource sets are iterated, a second
\* run of the analysis on the same tasks and traces builds the same priority
\* map, computes the same blocking time for every task and returns the same
\* results.
C27_Deterministic ==
    pc \in {"pre", "ran"} =>
        \A o \in AllOrders(pre.task_resources) :
            LET p == get_priorites_in_order(tasks, pre.task_resources, o)
            IN  /\ p = pre.priorities
                /\ (Ran /\ AllTraced) =>
                      /\ \A k \in 1..Len(tasks) :
                            blocking_time_in_order(tasks[k], tasks, p, OrderOf(o, tasks[k]))
                                = blocking_time(tasks[k], tasks, pre.priorities,
                                                pre.task_resources)
                      /\ run_analysis(tasks, p, pre.task_resources) = results

\* C27 witness: an analysis has returned results in which a task whose
\* resource set has two elements, and so two iteration orders, is blocked.
C27_Witness ==
    /\ Ran
    /\ AllTraced
    /\ results.status = "Ok"
    /\ \E k \in 1..Len(tasks) :
          /\ HasKey(pre.task_resources, tasks[k].name)
          /\ Cardinality(pre.task_resources[tasks[k].name]) = 2
          /\ results.res[k].blocking_time > 0

(***************************************************************************)
(* The trace builder against the iterative stack form of the design notes  *)
(***************************************************************************)
MaxForestLen == 4   \* longest sample list handed to the two builders

\* The immediates of the samples: two Entry codes, the two Exit codes that
\* close them, and one auxiliary code
ForestImms == {0, 3, 4, 251, 252}

\* The name recorded with a sample of the given immediate
ForestName(u) == IF u \in {4, 251} THEN "t1" ELSE "r1"

\* The sample list of the given immediates, the cycle counter of a sample
\* being its position
ForestList(f) ==
    [i \in 1..Len(f) |-> Sample(BreakpointFrom(f[i]), ForestName(f[i]), i)]

InitForest ==
    /\ \E k \in 0..MaxForestLen : \E f \in [1..k -> ForestImms] :
          measurement = ForestList(f)
    /\ analysis = NoAnalysis
    /\ pc = "collect"
    /\ imm = 0
    /\ decoded = NoBreakpoint
    /\ tasks = <<>>
    /\ traces = <<>>
    /\ pre = NoPreAnalysis
    /\ results = NoRun
    /\ recurrence = NoRecurrence
    /\ EngineIdle
    /\ ProbeIdle

SpecForest == InitForest /\ [][Analyse]_vars

\* The node on top of the stack gets one more inner trace
AttachToParent(stack, node) ==
    [stack EXCEPT ![Len(stack)].node.inner = Append(@, node)]

\* The iterative form, from the i-th sample on: stack holds the open nodes
\* with the Entry that opened them, forest the traces attached to the output
RECURSIVE IterativeFrom(_, _, _, _)
IterativeFrom(bkpts, i, stack, forest) ==
    IF i > Len(bkpts) THEN [status |-> "Ok", traces |-> forest]
    ELSE LET cur == bkpts[i]
         IN  CASE cur.bkpt.cat = "Entry" ->
                    IterativeFrom(bkpts, i + 1,
                        Append(stack,
                               [entry |-> cur.bkpt.v,
                                node |-> Trace(cur.name, TraceTypeFrom(cur.bkpt.v),
                                               cur.cyccnt, <<>>, 0)]),
                        forest)
               [] cur.bkpt.cat = "Exit" ->
                    IF stack = <<>> THEN [status |-> "Err", traces |-> <<>>]
                    ELSE LET top == Last(stack)
                             closed == [top.node EXCEPT !.end = cur.cyccnt]
                         IN  IF Discriminant(top.entry) + Discriminant(cur.bkpt.v) # 255
                             THEN [status |-> "Err", traces |-> <<>>]
                             ELSE IF Len(stack) = 1
                                  THEN IterativeFrom(bkpts, i + 1, <<>>,
                                                     Append(forest, closed))
                                  ELSE IterativeFrom(bkpts, i + 1,
                                           AttachToParent(Front(stack), closed), forest)
               [] OTHER -> [status |-> "Err", traces |-> <<>>]

\* The iterative form of the trace builder; an empty list fails as in the
\* recursive form
wcet_iterative(bkpts) ==
    IF bkpts = <<>> THEN [status |-> "Err", traces |-> <<>>]
    ELSE IterativeFrom(bkpts, 1, <<>>, <<>>)

\* C28: on every sample list the recursive trace builder and the iterative
\* stack form both fail, or both return the same forest.
C28_RecursiveIsIterative ==
    pc = "done" =>
        LET it == wcet_iterative(measurement)
        IN  /\ analysis.status = "Ok" <=> it.status = "Ok"
            /\ analysis.status = "Ok" => analysis.traces = it.traces

(***************************************************************************)
(* The register that receives a hardware-read value                        *)
(***************************************************************************)
\* The names of the low registers, r0 first
LowRegisters == <<"r0", "r1", "r2", "r3", "r4", "r5", "r6", "r7">>

\* The instruction is a load whose first operand is one of r0..r7
IsLowLoad(instruction) ==
    /\ instruction[1] \in {"ldr", "ldrb"}
    /\ \E n \in 1..8 : LowRegisters[n] = instruction[2]

\* The number N of the register rN that is the first operand
FirstOperand(instruction) ==
    (CHOOSE n \in 1..8 : LowRegisters[n] = instruction[2]) - 1

\* A step that handles a halt at the pending hardware breakpoint
HwHalt == LoopStep /\ core_halted /\ AtPendingHwBkpt

\* The writes of a hit that puts the next value of the queue in register n
HitWrites(n) ==
    IF vcell_test_vectors # <<>> /\ Len(Last(vcell_test_vectors).bytes) = 4
    THEN <<[kind |-> "reg", at |-> n,
            data |-> <<LittleEndian(Last(vcell_test_vectors).bytes)>>]>>
    ELSE <<>>

InsideHardwareReadHalt ==
    /\ LoopStep
    /\ core_halted
    /\ Classify(target.pc, current_hw_bkpt, target.bkpt) = "marker"
    /\ MeasureBreakpointFrom(target.imm) = Other("InsideHardwareRead")

\* C30: at an InsideHardwareRead halt whose LR - 1 lies in an accessor, the
\* pending address becomes the high_pc of the selected accessor range in a
\* debug build and that high_pc + 2 in a release build, a hardware breakpoint
\* is programmed at that address and no sample is appended; with no accessor
\* around LR - 1 no hardware breakpoint is programmed and the loop goes on.
C30_PendingAddress ==
    [][InsideHardwareReadHalt =>
          LET current_vcell == get_current_vcell_from_lr(target.lr, Vcells)
          IN  /\ pc' = "run"
              /\ measurement' = measurement
              /\ IF current_vcell = None
                 THEN hw_breakpoints' = hw_breakpoints
                 ELSE LET high_pc == Last(current_vcell[1].ranges)[2]
                      IN  /\ current_hw_bkpt' = high_pc + (IF app.release THEN 2 ELSE 0)
                          /\ current_hw_bkpt' \in hw_breakpoints']_vars

(***************************************************************************)
(* The probe helpers: run, breakpoint_at_pc, read_breakpoint_value         *)
(***************************************************************************)
MaxProbeCommands == 4   \* most commands sent to the core in one behaviour

BKPT_OPCODE == 190      \* 0b10111110, the high byte of a BKPT instruction

\* The 16-bit instructions of the memory, low byte first
Instr16s == {<<0, 190>>, <<5, 190>>, <<255, 190>>, <<190, 0>>, <<1, 191>>}

\* The addresses of the instructions
ProbeAddrs == {0, 2, 4}

\* The memories: bytes 0..5, the byte at address a being mem[a + 1]
ProbeMemories ==
    {i0 \o i1 \o i2 : i0 \in Instr16s, i1 \in {<<5, 190>>, <<190, 0>>},
                      i2 \in {<<255, 190>>, <<1, 191>>}}

\* core.read_8(address, &mut [0u8; 2])
read_8(c, address) == <<c.mem[address + 1], c.mem[address + 2]>>

\* The commands sent to the core
WriteCoreReg(reg, value) == [op |-> "write_core_reg", reg |-> reg, value |-> value]
StepCmd == [op |-> "step"]
RunCmd == [op |-> "run"]

\* Mutant of breakpoint_at_pc: the low byte is compared
breakpoint_at_pc_LowByte(c) == read_8(c, c.pc)[1] = BKPT_OPCODE

\* breakpoint_at_pc
breakpoint_at_pc(c) ==
    LET instr16 == read_8(c, c.pc)
    IN  instr16[2] = BKPT_OPCODE

\* step_from_breakpoint: the commands it sends
step_from_breakpoint(c) ==
    LET pc_val == c.pc
        step_pc == pc_val + 2
    IN  <<WriteCoreReg("pc", step_pc), StepCmd>>

\* run: the commands it sends
run(c, halted) ==
    (IF halted /\ breakpoint_at_pc(c) THEN step_from_breakpoint(c) ELSE <<>>)
        \o <<RunCmd>>

InitProbe ==
    /\ core \in {[pc |-> a, mem |-> m, log |-> <<>>] : a \in ProbeAddrs, m \in ProbeMemories}
    /\ core_halted \in BOOLEAN
    /\ pc = "probe"
    /\ imm = 0
    /\ failure = ""
    /\ measurement = <<>>
    /\ analysis = NoAnalysis
    /\ decoded = NoBreakpoint
    /\ tasks = <<>>
    /\ traces = <<>>
    /\ pre = NoPreAnalysis
    /\ results = NoRun
    /\ recurrence = NoRecurrence
    /\ ktests = 0
    /\ measurements = <<>>
    /\ current_hw_bkpt = 0
    /\ halts = <<>>
    /\ target = NoTarget
    /\ hw_breakpoints = {}
    /\ vcell_test_vectors = <<>>
    /\ written = <<>>
    /\ app = NoApp
    /\ ktest = NoKTest
    /\ running_access = FALSE
    /\ dwarf = NoDwarf

\* probe::run: the commands of run are sent and the core runs
ProbeRun ==
    /\ Len(core.log) < MaxProbeCommands
    /\ LET commands == run(core, core_halted)
       IN  core' = [core EXCEPT !.log = @ \o commands,
                                !.pc = IF Len(commands) > 1 THEN commands[1].value ELSE @]
    /\ core_halted' = FALSE
    /\ pc' = "resumed"
    /\ failure' = ""
    /\ UNCHANGED <<measurement, analysis, imm, decoded, tasks, traces, pre, results, recurrence,
                   ktests, measurements, current_hw_bkpt, halts, target, hw_breakpoints,
                   vcell_test_vectors, written, app, dwarf, ktest, running_access>>

\* The target: the running core halts somewhere
ProbeHalts ==
    /\ pc = "resumed"
    /\ ~core_halted
    /\ core_halted' = TRUE
    /\ \E a \in ProbeAddrs : core' = [core EXCEPT !.pc = a]
    /\ pc' = "probe"
    /\ UNCHANGED <<measurement, analysis, imm, decoded, tasks, traces, pre, results, recurrence,
                   ktests, measurements, current_hw_bkpt, halts, target, hw_breakpoints,
                   vcell_test_vectors, written, app, dwarf, ktest, running_access, failure>>

\* probe::read_breakpoint_value on a halted core
ProbeReadValue ==
    /\ core_halted
    /\ LET instr16 == read_8(core, core.pc)
       IN  IF instr16[2] = BKPT_OPCODE
           THEN /\ imm' = instr16[1]
                /\ pc' = "value"
                /\ failure' = ""
           ELSE /\ pc' = "no value"
                /\ failure' = "Not a breakpoint instruction at current PC"
                /\ UNCHANGED imm
    /\ UNCHANGED <<measurement, analysis, decoded, tasks, traces, pre, results, recurrence,
                   ktests, measurements, current_hw_bkpt, halts, target, hw_breakpoints,
                   vcell_test_vectors, written, app, dwarf, ktest, running_access, core,
                   core_halted>>

\* probe::read_breakpoint_value on a running core: the transfer of the PC and
\* of the memory is unpredictable, it fails or yields any byte
ProbeReadValueRunning ==
    /\ ~core_halted
    /\ \/ /\ \E a \in ProbeAddrs : imm' = read_8(core, a)[1]
          /\ pc' = "value"
          /\ failure' = ""
       \/ /\ pc' = "no value"
          /\ failure' = "Not a breakpoint instruction at current PC"
          /\ UNCHANGED imm
    /\ UNCHANGED <<measurement, analysis, decoded, tasks, traces, pre, results, recurrence,
                   ktests, measurements, current_hw_bkpt, halts, target, hw_breakpoints,
                   vcell_test_vectors, written, app, dwarf, ktest, running_access, core,
                   core_halted>>

NextProbe ==
    \/ ProbeRun
    \/ ProbeHalts
    \/ ProbeReadValue
    \/ ProbeReadValueRunning

SpecProbe == InitProbe /\ [][NextProbe]_vars

\* A step of run, and a step of read_breakpoint_value
RunStep == core'.log # core.log
ReadValueStep == pc' \in {"value", "no value"} /\ core' = core

\* The instruction at the PC is a software breakpoint: high byte 0b10111110
HaltedOnBreakpoint == core_halted /\ core.mem[core.pc + 2] = 190

\* C31: run on a core halted at a software-breakpoint instruction sets the PC
\* to PC + 2, then executes one single step, then resumes the core; on a core
\* halted elsewhere or not halted it resumes the core and leaves the PC
\* alone; read_breakpoint_value on a halted core succeeds exactly when the
\* instruction at the PC is a breakpoint and then returns its low byte.
C31_RunAndRead ==
    [][/\ RunStep =>
            IF HaltedOnBreakpoint
            THEN core'.log = core.log \o
                     << [op |-> "write_core_reg", reg |-> "pc", value |-> core.pc + 2],
                        [op |-> "step"], [op |-> "run"] >>
            ELSE /\ core'.log = Append(core.log, [op |-> "run"])
                 /\ core'.pc = core.pc
       /\ (ReadValueStep /\ core_halted) =>
            /\ pc' = "value" <=> HaltedOnBreakpoint
            /\ pc' = "value" => imm' = core.mem[core.pc + 1]]_vars

\* run has stepped over a breakpoint at address 2 and resumed the core, and
\* before that its immediate 5 was read
C31_Witness ==
    /\ pc = "resumed"
    /\ imm = 5
    /\ Len(core.log) = 3
    /\ core.log[1] = [op |-> "write_core_reg", reg |-> "pc", value |-> 4]
    /\ core.log[3] = [op |-> "run"]
    /\ ~core_halted

(***************************************************************************)
(* Name resolution at InsideTask and InsideLock halts                      *)
(***************************************************************************)
MaxResolveLr == 13   \* largest value of the link register at a resolved halt

\* Subprogram: the linkage name plays no part in the queries
Subprogram(name, low_pc, high_pc) ==
    [name |-> name, linkage_name |-> name, low_pc |-> low_pc, high_pc |-> high_pc]

\* parse_subprogram: DW_AT_low_pc is the first address, DW_AT_high_pc the size
parse_subprogram(name, low, high) == Subprogram(name, low, low + high)

\* app.subprograms: nested, adjacent and overlapping functions, in the
\* order of the DWARF traversal
SubprogramIndexes ==
    { <<>>,
      << parse_subprogram("main", 0, 12), parse_subprogram("t1", 2, 4),
         parse_subprogram("t2", 6, 4) >>,
      << parse_subprogram("t1", 2, 4), parse_subprogram("t2", 4, 4) >>,
      << parse_subprogram("t2", 4, 4), parse_subprogram("t1", 2, 4) >> }

\* app.resource_locks: locks with one or several ranges
LockIndexes ==
    { <<>>,
      << Subroutine("lock_b", << <<2, 10>> >>),
         Subroutine("lock_a", << <<2, 4>>, <<8, 10>> >>) >>,
      << Subroutine("lock_b", << <<3, 5>> >>), Subroutine("lock_a", << <<4, 6>> >>) >>,
      << Subroutine("lock_a", << <<2, 4>>, <<4, 12>> >>),
         Subroutine("lock_b", << <<3, 8>> >>) >> }

\* Subprogram::address_in_range
address_in_range(subprogram, address) ==
    subprogram.low_pc <= address /\ address <= subprogram.high_pc

\* get_subprograms_address_in_range
get_subprograms_address_in_range(subprograms, address) ==
    SelectSeq(subprograms, LAMBDA s : address_in_range(s, address))

\* get_shortest_range_subprogram: the loop from the i-th subprogram on
RECURSIVE ShortestSubprogramFrom(_, _, _)
ShortestSubprogramFrom(subs, i, ok) ==
    IF i > Len(subs) THEN ok
    ELSE LET sp_range == subs[i].high_pc - subs[i].low_pc
         IN  IF ok = None \/ sp_range < ok[1].high_pc - ok[1].low_pc
             THEN ShortestSubprogramFrom(subs, i + 1, Some(subs[i]))
             ELSE ShortestSubprogramFrom(subs, i + 1, ok)

\* Mutant of get_shortest_range_subprogram: the last of the shortest wins
RECURSIVE LastShortestSubprogramFrom(_, _, _)
LastShortestSubprogramFrom(subs, i, ok) ==
    IF i > Len(subs) THEN ok
    ELSE LET sp_range == subs[i].high_pc - subs[i].low_pc
         IN  IF ok = None \/ sp_range <= ok[1].high_pc - ok[1].low_pc
             THEN LastShortestSubprogramFrom(subs, i + 1, Some(subs[i]))
             ELSE LastShortestSubprogramFrom(subs, i + 1, ok)

get_shortest_range_subprogram_Last(subprograms_in_range) ==
    LastShortestSubprogramFrom(subprograms_in_range, 1, None)

get_shortest_range_subprogram(subprograms_in_range) ==
    ShortestSubprogramFrom(subprograms_in_range, 1, None)

\* get_current_task_from_lr
get_current_task_from_lr(lr, subprograms) ==
    get_shortest_range_subprogram(get_subprograms_address_in_range(subprograms, lr))

\* read_breakpoint_task_name
read_breakpoint_task_name(lr, subprograms) ==
    LET optimal == get_current_task_from_lr(lr, subprograms)
    IN  IF optimal # None THEN optimal[1].name ELSE BKPT_UNKNOWN_NAME

\* get_current_resource_lock
get_current_resource_lock(lr, resource_locks) ==
    get_shortest_range_subroutine(get_subroutines_address_in_range(resource_locks, lr))

\* read_breakpoint_lock_name
read_breakpoint_lock_name(lr, resource_locks) ==
    LET optimal == get_current_resource_lock(lr, resource_locks)
    IN  IF optimal # None THEN optimal[1].name ELSE BKPT_UNKNOWN_NAME

\* The core is halted at an InsideTask or InsideLock marker after two samples
InitResolve ==
    /\ measurement = << Sample(BreakpointFrom(4), BKPT_UNKNOWN_NAME, 1),
                        Sample(BreakpointFrom(3), BKPT_UNKNOWN_NAME, 2) >>
    /\ \E u \in {1, 254}, l \in 0..MaxResolveLr :
          target = [pc |-> 8, bkpt |-> TRUE, imm |-> u, lr |-> l]
    /\ app \in {[subprograms |-> s, resource_locks |-> r] :
                   s \in SubprogramIndexes, r \in LockIndexes}
    /\ core_halted = TRUE
    /\ pc = "wait"
    /\ analysis = NoAnalysis
    /\ imm = 0
    /\ decoded = NoBreakpoint
    /\ tasks = <<>>
    /\ traces = <<>>
    /\ pre = NoPreAnalysis
    /\ results = NoRun
    /\ recurrence = NoRecurrence
    /\ EngineIdle
    /\ hw_breakpoints = {}
    /\ vcell_test_vectors = <<>>
    /\ written = <<>>
    /\ ktest = NoKTest
    /\ running_access = FALSE
    /\ core = NoCore
    /\ dwarf = NoDwarf

\* handle_breakpoint, the InsideTask and InsideLock arms
ResolveName ==
    /\ pc = "wait"
    /\ LET bkpt == MeasureBreakpointFrom(target.imm)
           name == IF bkpt = Other("InsideTask")
                   THEN read_breakpoint_task_name(target.lr, app.subprograms)
                   ELSE read_breakpoint_lock_name(target.lr, app.resource_locks)
       IN  measurement' = Rename(measurement, name)
    /\ pc' = "run"
    /\ UNCHANGED <<probeVars, analysis, fromVars, analyzeVars, engineVars>>

SpecResolve == InitResolve /\ [][ResolveName]_vars

\* The ranges of the i-th entry of an index, a subprogram having one
RangesOf(index, i) ==
    IF "ranges" \in DOMAIN index[i] THEN index[i].ranges
    ELSE << <<index[i].low_pc, index[i].high_pc>> >>

\* The extents of the ranges of the i-th entry that contain the address
ExtentsAt(index, i, address) ==
    {r[2] - r[1] : r \in {RangesOf(index, i)[k] : k \in 1..Len(RangesOf(index, i))}
                              \cap {q \in Nat \X Nat : q[1] <= address /\ address <= q[2]}}

\* The name the claim gives: the first entry of the smallest extent among the
\* entries with a range around the address, the sentinel if there is none
NameByExtent(index, address) ==
    LET cands == {i \in 1..Len(index) : ExtentsAt(index, i, address) # {}}
        ext(i) == CHOOSE e \in ExtentsAt(index, i, address) : TRUE
    IN  IF cands = {} THEN "<unknown>"
        ELSE index[CHOOSE i \in cands :
                      \A j \in cands : ext(i) < ext(j) \/ (ext(i) = ext(j) /\ i <= j)].name

\* No entry of the index has two ranges around the address
OneRangeAt(index, address) ==
    \A i \in 1..Len(index) : Cardinality(ExtentsAt(index, i, address)) <= 1

C33_HalfOpenRange ==
    (pc = "run" /\ target.imm = 1) =>
        LET in_range == get_subprograms_address_in_range(app.subprograms, target.lr)
        IN  \A i \in 1..Len(in_range) :
               in_range[i].low_pc <= target.lr /\ target.lr < in_range[i].high_pc

(***************************************************************************)
(* The variable-location view: parse_object_location                       *)
(***************************************************************************)
MaxAttrs == 4   \* most attributes of a DW_TAG_variable entry

FLASH_ADDRESS_START == 536870912   \* 0x2000_0000

\* What the evaluation of a location expression ends with
LocAddress(a) == [kind |-> "Address", at |-> a]
LocValue(v) == [kind |-> "Value", at |-> v]
LocRegister == [kind |-> "Register", at |-> 0]

\* An attribute and the forms of its value
Attr(name, value) == [name |-> name, value |-> value]
Exprloc(e) == [form |-> "Exprloc", data |-> e]
LocationListsRef(es) == [form |-> "LocationListsRef", data |-> es]
DebugStrRef(str) == [form |-> "DebugStrRef", data |-> str]
Flag == [form |-> "Flag", data |-> TRUE]

\* The attributes an entry is made of
Attrs ==
    << Attr("DW_AT_name", DebugStrRef("a")),
       Attr("DW_AT_location", Exprloc(LocAddress(32))),
       Attr("DW_AT_location", Exprloc(LocValue(16))),
       Attr("DW_AT_location", Exprloc(LocValue(FLASH_ADDRESS_START + 4))),
       Attr("DW_AT_location", LocationListsRef(<<LocRegister, LocAddress(48)>>)),
       Attr("DW_AT_external", Flag),
       Attr("DW_AT_type", Flag) >>

\* The entries, as the positions of their attributes in Attrs: every
\* attribute at most once, in any order
VariableEntries ==
    {e \in SeqsUpTo(1..Len(Attrs), MaxAttrs) :
        \A i, j \in 1..Len(e) : Attrs[e[i]].name = Attrs[e[j]].name => i = j}

\* The entry of the given attributes
EntryOf(e) == [i \in 1..Len(e) |-> Attrs[e[i]]]

\* location_from_expr
location_from_expr(expr) ==
    CASE expr.kind = "Address" -> Some(expr.at)
      [] expr.kind = "Value" -> IF expr.at >= FLASH_ADDRESS_START THEN Some(expr.at) ELSE None
      [] OTHER -> None

\* The first location of a location list that has an address
RECURSIVE FirstLocation(_)
FirstLocation(locations) ==
    IF locations = <<>> THEN None
    ELSE IF location_from_expr(Head(locations)) # None
         THEN location_from_expr(Head(locations))
         ELSE FirstLocation(Tail(locations))

\* The outcome of parse_object_location
ObjectLocation(name, address) == [name |-> name, address |-> address]
ParsedObject(name, location) ==
    IF location # None THEN Some(ObjectLocation(name, location[1])) ELSE None

\* parse_object_location: the loop over the attributes that are left
RECURSIVE ParseAttrs(_, _, _)
ParseAttrs(attrs, name, location) ==
    IF attrs = <<>> THEN ParsedObject(name, location)
    ELSE LET attr == Head(attrs)
         IN  CASE attr.name = "DW_AT_name" ->
                    ParseAttrs(Tail(attrs), attr.value.data, location)
               [] attr.name = "DW_AT_location" /\ attr.value.form = "Exprloc" ->
                    ParseAttrs(Tail(attrs), name,
                        IF location_from_expr(attr.value.data) # None
                        THEN location_from_expr(attr.value.data) ELSE location)
               [] attr.name = "DW_AT_location" /\ attr.value.form = "LocationListsRef" ->
                    IF FirstLocation(attr.value.data) # None
                    THEN ParsedObject(name, FirstLocation(attr.value.data))
                    ELSE ParseAttrs(Tail(attrs), name, location)
               [] attr.name = "DW_AT_external" -> ParsedObject(name, location)
               [] OTHER -> ParseAttrs(Tail(attrs), name, location)

\* parse_object_location
parse_object_location(entry) == ParseAttrs(entry, "", None)

InitVariable ==
    /\ \E e \in VariableEntries : dwarf = EntryOf(e)
    /\ app = [variables |-> EmptyMap]
    /\ pc = "parse"
    /\ measurement = <<>>
    /\ analysis = NoAnalysis
    /\ imm = 0
    /\ decoded = NoBreakpoint
    /\ tasks = <<>>
    /\ traces = <<>>
    /\ pre = NoPreAnalysis
    /\ results = NoRun
    /\ recurrence = NoRecurrence
    /\ EngineIdle
    /\ core_halted = TRUE
    /\ target = NoTarget
    /\ hw_breakpoints = {}
    /\ vcell_test_vectors = <<>>
    /\ written = <<>>
    /\ ktest = NoKTest
    /\ running_access = FALSE
    /\ core = NoCore

\* get_replay_addresses on a unit with one DW_TAG_variable entry
GetReplayAddresses ==
    /\ pc = "parse"
    /\ LET variable == parse_object_location(dwarf)
       IN  app' = [app EXCEPT !.variables =
                      IF variable # None
                      THEN Insert(@, variable[1].name, variable[1].address)
                      ELSE @]
    /\ pc' = "parsed"
    /\ UNCHANGED <<builderVars, fromVars, analyzeVars, engineVars, core_halted, target,
                   hw_breakpoints, vcell_test_vectors, written, ktest, running_access,
                   core, dwarf>>

SpecVariable == InitVariable /\ [][GetReplayAddresses]_vars

\* The entry carries the attribute
HasAttr(entry, name) == \E i \in 1..Len(entry) : entry[i].name = name

\* A location attribute of the entry evaluates to a concrete address
HasConcreteLocation(entry) ==
    \E i \in 1..Len(entry) :
        /\ entry[i].name = "DW_AT_location"
        /\ LET d == entry[i].value.data
               concrete(x) == x.kind = "Address" \/ (x.kind = "Value" /\ x.at >= 536870912)
           IN  IF entry[i].value.form = "Exprloc" THEN concrete(d)
               ELSE \E k \in 1..Len(d) : concrete(d[k])

\* C34: a DW_TAG_variable entry is recorded in the variable-location view
\* only if it has no DW_AT_external attribute and its location evaluates to a
\* concrete address; an entry with a DW_AT_external attribute is never
\* recorded, whatever the order of its attributes.
C34_ExternalNeverRecorded ==
    (pc = "parsed" /\ app.variables # EmptyMap) =>
        /\ ~HasAttr(dwarf, "DW_AT_external")
        /\ HasConcreteLocation(dwarf)

(***************************************************************************)
(* Scenario F: blocking through a shared resource                          *)
(***************************************************************************)
IsScenarioF ==
    /\ Len(tasks) = 2
    /\ {[tasks[k] EXCEPT !.trace = <<>>] : k \in 1..2} = {ScenarioFHi, ScenarioFLo}

\* The resources the k-th task locks
LockedBy(k) ==
    IF HasKey(pre.task_resources, tasks[k].name)
    THEN pre.task_resources[tasks[k].name] ELSE {}

\* C35: when a task and a task of lower priority both lock a resource r, the
\* ceiling of r is at least the priority of the first and its blocking time
\* is at least the longest end - start of a node named r in the WCET trace of
\* the second, in every run that returns results; in scenario F,
\* blocking_time(hi) = 50 and blocking_time(lo) = 0.
C35_ScenarioF ==
    Ran =>
        /\ results.status = "Ok" =>
              \A k, j \in 1..Len(tasks) :
                  \A r \in LockedBy(k) \cap LockedBy(j) :
                      tasks[j].priority < tasks[k].priority =>
                          /\ pre.priorities[r] >= tasks[k].priority
                          /\ results.res[k].blocking_time
                                >= LongestHold(tasks[j].trace[1], r)
        /\ IsScenarioF =>
              /\ results.status = "Ok"
              /\ pre.priorities["r"] = 3
              /\ ResultOf("hi").blocking_time = 50
              /\ ResultOf("lo").blocking_time = 0

\* Scenario F has been analysed with lo declared first and its trace
\* starting at cycle 7
C35_Witness ==
    /\ Ran
    /\ IsScenarioF
    /\ tasks[1].name = "lo"
    /\ tasks[1].trace[1].start = 7
    /\ ResultOf("hi").blocking_time = 50

(***************************************************************************)
(* The root of the returned list                                           *)
(***************************************************************************)
\* C36: whenever wcet_analysis returns Ok the returned list holds exactly one
\* root, the node opened by the first sample of the list; the samples after
\* the Exit that closes this root are not read: the outcome is that of the
\* list cut after that Exit, with no second root and no error.
C36_SingleRoot ==
    Analysed =>
        /\ analysis.status = "Ok" =>
              /\ Len(analysis.traces) = 1
              /\ measurement[1].bkpt.cat = "Entry"
              /\ analysis.traces[1].name = measurement[1].name
              /\ analysis.traces[1].start = measurement[1].cyccnt
              /\ analysis.traces[1].ttype = KindOfEntry(measurement[1].bkpt.v)
        /\ Scan(measurement).event = "closed" =>
              LET cut == SubSeq(measurement, 1, Scan(measurement).pos)
              IN  /\ analysis.status = "Ok"
                  /\ analysis.traces = wcet_analysis(cut).traces
                  /\ analysis.traces = NestForest(cut)

\* A list of two closed groups, and a list whose closed group is followed by
\* an auxiliary marker and an unmatched Exit, have been analysed with Ok
C36_Witness ==
    /\ Analysed
    /\ analysis.status = "Ok"
    /\ Len(measurement) = 4
    /\ Scan(measurement).event = "closed"
    /\ Scan(measurement).pos = 2
    /\ measurement[3].bkpt.cat = "Other"
    /\ measurement[4].bkpt.cat = "Exit"

(***************************************************************************)
(* The hardware breakpoints at the end of a vector                         *)
(***************************************************************************)
\* C37: when the measurement loop of a vector returns its sample list at
\* ReplayStart, no hardware breakpoint is set on the target any more, and the
\* next vector, which starts with no pending address, starts with none set
\* either.
C37_NoStaleHwBreakpoint ==
    /\ pc = "returned" => hw_breakpoints = {}
    /\ pc = "run" /\ measurement = <<>> /\ current_hw_bkpt = 0 => hw_breakpoints = {}

(***************************************************************************)
(* A name marker before the first sample                                   *)
(***************************************************************************)
\* A step that handles a halt at an InsideTask or InsideLock marker
InsideNameHalt ==
    /\ LoopStep
    /\ core_halted
    /\ Classify(target.pc, current_hw_bkpt, target.bkpt) = "marker"
    /\ MeasureBreakpointFrom(target.imm) \in {Other("InsideTask"), Other("InsideLock")}

\* C38: an InsideTask or InsideLock halt that arrives while the sample list of
\* the vector is empty does not abort the program: the loop goes on with the
\* list unchanged, or the measurement of the vector returns an error.
C38_NameHaltOnEmptyList ==
    [][InsideNameHalt /\ measurement = <<>> =>
          /\ pc' \in {"run", "failed"}
          /\ pc' = "run" => measurement' = <<>>]_vars

(***************************************************************************)
(* The names of the Exit samples                                           *)
(***************************************************************************)
\* The list with the name of every Exit sample replaced by n
WithExitNames(list, n) ==
    [i \in 1..Len(list) |->
        IF list[i].bkpt.cat = "Exit"
        THEN Sample(list[i].bkpt, n, list[i].cyccnt)
        ELSE list[i]]

\* What wcet_analysis returns to its caller: the error, or the traces
Outcome(r) == [status |-> r.status, err |-> r.err, traces |-> r.traces]

RECURSIVE NamesOfTrace(_)
NamesOfTrace(t) ==
    {t.name} \cup UNION {NamesOfTrace(t.inner[i]) : i \in 1..Len(t.inner)}

\* C39: the names of the Exit samples do not influence the trace builder: the
\* outcome of a list is the outcome of the same list with any one name put
\* on all its Exit samples, so two lists that differ only in the names of
\* their Exit samples have the same outcome; every name of a returned trace
\* is the name of an Entry sample.
C39_ExitNamesUnused ==
    Analysed =>
        /\ \A n \in Names \cup {BKPT_UNKNOWN_NAME} :
              Outcome(wcet_analysis(WithExitNames(measurement, n))) = Outcome(analysis)
        /\ \A k \in 1..Len(analysis.traces) :
              NamesOfTrace(analysis.traces[k]) \subseteq
                 {measurement[i].name : i \in {j \in 1..Len(measurement) :
                                                  measurement[j].bkpt.cat = "Entry"}}

\* A list has been analysed with Ok whose closing Exit carries another name
\* than the Entry it closes
C39_Witness ==
    /\ Analysed
    /\ analysis.status = "Ok"
    /\ Len(measurement) >= 2
    /\ measurement[1].name = "t1"
    /\ \E i \in 2..Len(measurement) :
          /\ i = Scan(measurement).pos
          /\ measurement[i].bkpt.cat = "Exit"
          /\ measurement[i].name = "r1"
    /\ analysis.traces[1].name = "t1"

(***************************************************************************)
(* The recurrence of preemption_rec, call by call, on u32 values           *)
(***************************************************************************)
\* A u32 is held as its two 16-bit halves <<high, low>>
Half16 == 65536

Halves == 0..(Half16 - 1)
U32s == Halves \X Halves

\* The u32 of a number below 2^31
U32(n) == <<n \div Half16, n % Half16>>

u32_MAX == <<Half16 - 1, Half16 - 1>>

Gt(a, b) == a[1] > b[1] \/ (a[1] = b[1] /\ a[2] > b[2])

\* The outcome of an operation on u32: the wrapped result, and whether the
\* exact result left the u32 range
Wrapped == [v : U32s, overflow : BOOLEAN]

\* a + b on u32
overflowing_add[a \in U32s, b \in U32s] ==
    LET lo == a[2] + b[2]
        hi == a[1] + b[1] + (lo \div Half16)
    IN  [v |-> <<hi % Half16, lo % Half16>>, overflow |-> hi >= Half16]

\* The product of two 16-bit halves, which a u32 always holds
Mul16[x \in Halves, y \in Halves] ==
    LET p == x * (y \div 256)
        q == x * (y % 256)
    IN  overflowing_add[<<p \div 256, (p % 256) * 256>>, U32(q)].v

\* a * b on u32
overflowing_mul[a \in U32s, b \in U32s] ==
    LET ll == Mul16[a[2], b[2]]
        hl == Mul16[a[1], b[2]]
        lh == Mul16[a[2], b[1]]
        s1 == overflowing_add[ll, <<hl[2], 0>>]
        s2 == overflowing_add[s1.v, <<lh[2], 0>>]
    IN  [v |-> s2.v,
         overflow |-> \/ (a[1] > 0 /\ b[1] > 0)
                      \/ hl[1] > 0
                      \/ lh[1] > 0
                      \/ s1.overflow
                      \/ s2.overflow]

\* The number of low bits that a significand of 24 bits cannot hold
DroppedBits[high \in Halves] ==
    CHOOSE k \in 0..8 : high < 2^(8 + k) /\ (k = 0 \/ high >= 2^(7 + k))

\* x rounded to a multiple of m = 2^e, ties to even; <<carry, high, low>>,
\* as the result can be 2^32
RoundTo[x \in U32s, m \in {2^e : e \in 0..8}] ==
    LET rem == x[2] % m
        up == 2 * rem > m \/ (2 * rem = m /\ (x[2] \div m) % 2 = 1)
        r == IF up THEN overflowing_add[<<x[1], x[2] - rem>>, <<0, m>>]
             ELSE [v |-> <<x[1], x[2] - rem>>, overflow |-> FALSE]
    IN  <<IF r.overflow THEN 1 ELSE 0, r.v[1], r.v[2]>>

\* `prev_rt as f32`: the nearest number with a significand of 24 bits, ties
\* to even
as_f32[x \in U32s] == RoundTo[x, 2^DroppedBits[x[1]]]

\* `(f / a).ceil() as u32` for an inter-arrival time a that is a power of
\* two up to 2^16: the quotient is exact, the ceiling adds one when a bit is
\* shifted out, and the conversion to u32 saturates.
CeilQuotient[f \in {0, 1} \X Halves \X Halves, a \in {2^e : e \in 0..16}] ==
    IF a = 1
    THEN IF f[1] = 1 THEN u32_MAX ELSE <<f[2], f[3]>>
    ELSE LET floor == <<f[1] * (Half16 \div a) + f[2] \div a,
                        (f[2] % a) * (Half16 \div a) + f[3] \div a>>
         IN  IF f[3] % a > 0 THEN overflowing_add[floor, U32(1)].v ELSE floor

\* `current_rt += calc` (analysis.rs:50): the sum so far, the product just
\* computed
AddCalc[acc \in Wrapped, calc \in Wrapped] ==
    LET sum == overflowing_add[acc.v, calc.v]
    IN  [v |-> sum.v, overflow |-> acc.overflow \/ calc.overflow \/ sum.overflow]

\* The summation loop of preemption_rec (analysis.rs:45-53) from the i-th
\* task on; acc is current_rt so far and whether an operation overflowed
RECURSIVE SummationFrom(_, _, _, _, _, _)
SummationFrom(task, tsks, ip, prev_rt, i, acc) ==
    IF i > Len(tsks) THEN acc
    ELSE IF i \in HigherTasks(task, tsks, ip)
         THEN SummationFrom(task, tsks, ip, prev_rt, i + 1,
                  AddCalc[acc, overflowing_mul[U32(wcet(tsks[i])),
                                   CeilQuotient[as_f32[prev_rt], tsks[i].inter_arrival]]])
         ELSE SummationFrom(task, tsks, ip, prev_rt, i + 1, acc)

\* wcet(task) + blocking_time(task, tasks, ip, tr) (analysis.rs:19, 37)
BaseRt(task, tsks, ip, tr) ==
    overflowing_add[U32(wcet(task)), U32(blocking_time(task, tsks, ip, tr))]

\* current_rt of one call of preemption_rec (analysis.rs:37-53)
current_rt(task, tsks, ip, tr, prev_rt) ==
    SummationFrom(task, tsks, ip, prev_rt, 1, BaseRt(task, tsks, ip, tr))

\* The task sets of the recurrence: a task hi of priority 2 and a task lo of
\* priority 1, each with one measured trace; the inter-arrival times are
\* powers of two
RecWcetsHi == {5, 65535}
RecWcetsLo == {20, 65536}
RecInterArrivals == {1, 2, 128}
RecDeadlines == {900, 100000}

RecInputs ==
    {[tasks |-> <<Task("hi", 2, 1000, a), Task("lo", 1, d, 1024)>>,
      traces |-> <<Trace("hi", "HardwareTask", 0, <<>>, w),
                   Trace("lo", "HardwareTask", 0, <<>>, c)>>] :
        a \in RecInterArrivals, d \in RecDeadlines, w \in RecWcetsHi, c \in RecWcetsLo}

InitRec ==
    /\ measurement = <<>>
    /\ analysis = NoAnalysis
    /\ pc = "input"
    /\ imm = 0
    /\ decoded = NoBreakpoint
    /\ \E in \in RecInputs : tasks = in.tasks /\ traces = in.traces
    /\ pre = NoPreAnalysis
    /\ results = NoRun
    /\ recurrence = NoRecurrence
    /\ EngineIdle
    /\ ProbeIdle

\* run_analysis calls preemption for a task (analysis.rs:18-22): the first
\* call of preemption_rec gets base as prev_rt.  An overflowing operation
\* panics in a build with overflow checks and wraps in a build without.
Preemption ==
    /\ pc = "pre"
    /\ \E k \in 1..Len(tasks), checks \in BOOLEAN :
          /\ \A u \in Unwrapped(tasks[k], k, tasks, pre.priorities, pre.task_resources) :
                tasks[u].trace # <<>>
          /\ LET base == BaseRt(tasks[k], tasks, pre.priorities, pre.task_resources)
             IN  IF base.overflow /\ checks
                 THEN /\ recurrence' = [task |-> k, base |-> base.v, prev_rt |-> base.v,
                                        status |-> "Panic", overflow_checks |-> checks]
                      /\ pc' = "aborted"
                 ELSE /\ recurrence' = [task |-> k, base |-> base.v, prev_rt |-> base.v,
                                        status |-> "running", overflow_checks |-> checks]
                      /\ pc' = "rec"
    /\ UNCHANGED <<probeVars, engineVars, builderVars, fromVars, tasks, traces, pre, results>>

\* One call of preemption_rec (analysis.rs:30-64)
PreemptionRec ==
    /\ pc = "rec"
    /\ \E c \in {current_rt(tasks[recurrence.task], tasks, pre.priorities,
                             pre.task_resources, recurrence.prev_rt)} :
           IF c.overflow /\ recurrence.overflow_checks
           THEN /\ recurrence' = [recurrence EXCEPT !.status = "Panic"]
                /\ pc' = "aborted"
           ELSE IF Gt(c.v, U32(tasks[recurrence.task].deadline))
           THEN /\ recurrence' = [recurrence EXCEPT !.status = "Err"]
                /\ pc' = "ran"
           ELSE IF c.v = recurrence.prev_rt
           THEN /\ recurrence' = [recurrence EXCEPT !.status = "Ok"]
                /\ pc' = "ran"
           ELSE /\ recurrence' = [recurrence EXCEPT !.prev_rt = c.v]
                /\ UNCHANGED pc
    /\ UNCHANGED <<probeVars, engineVars, builderVars, fromVars, tasks, traces, pre, results>>

NextRec == PreAnalysis \/ Preemption \/ PreemptionRec

SpecRec == InitRec /\ [][NextRec]_vars

\* A call that is made runs
SpecRecFair == SpecRec /\ WF_vars(NextRec)

\* C40: with positive inter-arrival times preemption terminates: from one
\* call of preemption_rec to the next the argument does not decrease, and
\* every call of preemption ends with the first repeated iterate (Ok) or the
\* first iterate above the deadline (Err).
C40_PreemptionTerminates ==
    /\ [][pc = "rec" /\ pc' = "rec" =>
             ~Gt(recurrence.prev_rt, recurrence'.prev_rt)]_vars
    /\ (pc = "rec") ~> (pc = "ran" /\ recurrence.status \in {"Ok", "Err"})

====
